---- MODULE Spec2Model ----
(***************************************************************************)
(* Dynamic pricing engine of matasmtj/ratai24 (src/src/pricing).           *)
(*                                                                         *)
(* Conventions of the model                                                *)
(*   - money is counted in cents (a stored 45.00 is 4500);                 *)
(*   - a multiplier is an exact fraction <<numerator, denominator>>;       *)
(*   - a date is a number of half-days since 1 January, 00:00 local time,  *)
(*     of the model year (1 January 2026 is a Thursday);                   *)
(*   - arithmetic on prices is exact (arbitrary precision on limbs of base *)
(*     10000), so Math.round is an exact round-half-up; the 1e-16 relative *)
(*     error of IEEE doubles is not modelled;                              *)
(*   - a store call that the database rejects is a member of the set       *)
(*     `faults' handed to the operation.                                   *)
(***************************************************************************)
EXTENDS Integers, Sequences, FiniteSets, TLC

VARIABLES cars, contracts, rules, factors, snapshots, now, res, prev,
          metrics, minute, calls, run

vars == <<cars, contracts, rules, factors, snapshots, now, res, prev, metrics, minute, calls, run>>

(***************************************************************************)
(* Values                                                                  *)
(***************************************************************************)
\* SQL NULL / JS null or undefined in a numeric column or argument
Null == -1

\* null in a fraction-valued column (Car.utilizationRate)
NullRate == <<0, 0>>

\* a rejected promise travelling through Promise.all
THROWN == <<-1, -1>>

\* one day, in half-days (1000 * 60 * 60 * 24 ms)
DAY == 2

One == <<1, 1>>

(***************************************************************************)
(* Exact arithmetic: JS numbers                                            *)
(***************************************************************************)
BASE == 10000

RECURSIVE GCD(_, _)
GCD(a, b) == IF b = 0 THEN a ELSE GCD(b, a % b)

\* a fraction in lowest terms
Frac(n, d) == LET g == GCD(n, d) IN IF g = 0 THEN <<n, d>> ELSE <<n \div g, d \div g>>

\* a * b for fractions, cancelling before multiplying
FracMul(a, b) ==
  LET g1 == GCD(a[1], b[2])
      g2 == GCD(b[1], a[2])
      h1 == IF g1 = 0 THEN 1 ELSE g1
      h2 == IF g2 = 0 THEN 1 ELSE g2
  IN <<(a[1] \div h1) * (b[1] \div h2), (a[2] \div h2) * (b[2] \div h1)>>

FracLess(a, b) == a[1] * b[2] < b[1] * a[2]
FracLeq(a, b)  == a[1] * b[2] <= b[1] * a[2]
FracEq(a, b)   == a[1] * b[2] = b[1] * a[2]

\* Math.ceil(x / d) and Math.floor(x / d) for an integer x and d > 0
CeilDiv(x, d)  == -((-x) \div d)
FloorDiv(x, d) == x \div d

\* Math.round(n / d) for n >= 0, d > 0: halves round up
RoundDiv(n, d) == (2 * n + d) \div (2 * d)

\* Big naturals: little-endian sequences of limbs in 0 .. BASE-1
RECURSIVE BigMulSmall(_, _, _)
BigMulSmall(n, k, carry) ==
  IF n = <<>>
  THEN IF carry = 0 THEN <<>>
       ELSE <<carry % BASE>> \o BigMulSmall(<<>>, k, carry \div BASE)
  ELSE LET p == Head(n) * k + carry
       IN <<p % BASE>> \o BigMulSmall(Tail(n), k, p \div BASE)

RECURSIVE BigAdd(_, _, _)
BigAdd(a, b, carry) ==
  IF a = <<>> /\ b = <<>>
  THEN IF carry = 0 THEN <<>> ELSE <<carry>>
  ELSE LET x == IF a = <<>> THEN 0 ELSE Head(a)
           y == IF b = <<>> THEN 0 ELSE Head(b)
           s == x + y + carry
       IN <<s % BASE>> \o BigAdd(IF a = <<>> THEN a ELSE Tail(a),
                                 IF b = <<>> THEN b ELSE Tail(b), s \div BASE)

RECURSIVE BigMul(_, _)
BigMul(a, b) ==
  IF b = <<>> THEN <<>>
  ELSE BigAdd(BigMulSmall(a, Head(b), 0), <<0>> \o BigMul(a, Tail(b)), 0)

RECURSIVE BigNorm(_)
BigNorm(n) ==
  IF n # <<>> /\ n[Len(n)] = 0 THEN BigNorm(SubSeq(n, 1, Len(n) - 1)) ELSE n

RECURSIVE BigCmpAt(_, _, _)
BigCmpAt(a, b, i) ==
  IF i = 0 THEN 0
  ELSE IF a[i] < b[i] THEN -1
  ELSE IF a[i] > b[i] THEN 1
  ELSE BigCmpAt(a, b, i - 1)

\* -1, 0 or 1 as x <, =, > y
BigCmp(x, y) ==
  LET a == BigNorm(x)
      b == BigNorm(y)
  IN IF Len(a) < Len(b) THEN -1
     ELSE IF Len(a) > Len(b) THEN 1
     ELSE BigCmpAt(a, b, Len(a))

RECURSIVE BigDivAt(_, _, _, _)
BigDivAt(n, k, i, r) ==
  IF i = 0 THEN <<>>
  ELSE LET cur == r * BASE + n[i]
       IN BigDivAt(n, k, i - 1, cur % k) \o <<cur \div k>>

\* floor(n / k) for a small k
BigDivSmall(n, k) == BigDivAt(n, k, Len(n), 0)

RECURSIVE BigToInt(_)
BigToInt(n) == IF n = <<>> THEN 0 ELSE Head(n) + BASE * BigToInt(Tail(n))

BigFromInt(i) == BigMulSmall(<<1>>, i, 0)

RECURSIVE BigProd(_)
BigProd(f) == IF f = <<>> THEN <<1>> ELSE BigMulSmall(BigProd(Tail(f)), Head(f), 0)

RECURSIVE BigDivAll(_, _)
BigDivAll(n, f) == IF f = <<>> THEN n ELSE BigDivAll(BigDivSmall(n, Head(f)), Tail(f))

(***************************************************************************)
(* A price in flight: n / (f[1] * ... * f[k]) cents, n a big natural and   *)
(* f the small denominators collected so far.                              *)
(***************************************************************************)
Price(c) == [n |-> BigFromInt(c), f |-> <<>>]

PriceOfFrac(q) == [n |-> BigFromInt(q[1]), f |-> <<q[2]>>]

\* p * q for a fraction q
PriceMul(p, q) == [n |-> BigMulSmall(p.n, q[1], 0), f |-> Append(p.f, q[2])]

\* -1, 0 or 1 as p <, =, > q
PriceCmp(p, q) == BigCmp(BigMul(p.n, BigProd(q.f)), BigMul(q.n, BigProd(p.f)))

\* Math.max and Math.min
PriceMax(p, q) == IF PriceCmp(p, q) >= 0 THEN p ELSE q
PriceMin(p, q) == IF PriceCmp(p, q) <= 0 THEN p ELSE q

\* Math.round(p * 100) / 100 in cents: floor((2n + D) / 2D)
Round2(p) ==
  BigToInt(BigDivAll(BigAdd(BigMulSmall(p.n, 2, 0), BigProd(p.f), 0), Append(p.f, 2)))

(***************************************************************************)
(* Calendar of the model year (365 days, 1 January is a Thursday)          *)
(***************************************************************************)
YEARDAYS == 365

DayIndex(t) == t \div DAY

\* the day of the year, 0-based, and the instant the year of t starts
DayOfYear(t) == DayIndex(t) % YEARDAYS
YearStart(t) == (DayIndex(t) \div YEARDAYS) * YEARDAYS * DAY

\* Date.getMonth(): 0 .. 11
getMonth(t) ==
  LET d == DayOfYear(t)
  IN IF d < 31 THEN 0 ELSE IF d < 59 THEN 1 ELSE IF d < 90 THEN 2
     ELSE IF d < 120 THEN 3 ELSE IF d < 151 THEN 4 ELSE IF d < 181 THEN 5
     ELSE IF d < 212 THEN 6 ELSE IF d < 243 THEN 7 ELSE IF d < 273 THEN 8
     ELSE IF d < 304 THEN 9 ELSE IF d < 334 THEN 10 ELSE 11

\* Date.getDay(): 0 = Sunday .. 6 = Saturday
getDay(t) == (4 + DayIndex(t)) % 7

\* the 11 fixed holidays of the year of t, as instants (local midnight)
getHolidays(t) ==
  { YearStart(t) + h * DAY : h \in {0, 46, 69, 120, 174, 186, 226, 304, 357, 358, 359} }

Abs(x) == IF x < 0 THEN -x ELSE x

(***************************************************************************)
(* Cost model: calculateBasePrice                                          *)
(***************************************************************************)
Truthy(x) == x # Null /\ x # 0

calculateBasePrice(car) ==
  IF Truthy(car.basePricePerDay) /\ car.basePricePerDay > 0
  THEN car.basePricePerDay
  ELSE
    LET op  == IF Truthy(car.dailyOperatingCost) THEN car.dailyOperatingCost ELSE 0
        fin == IF Truthy(car.monthlyFinancingCost) THEN car.monthlyFinancingCost ELSE 0
        pur == IF Truthy(car.purchasePrice) THEN car.purchasePrice ELSE 0
        \* dailyCost = op + fin / 30 + pur / 10 / 365, over the denominator 10950
        cost == BigAdd(BigAdd(BigMulSmall(BigFromInt(op), 10950, 0),
                              BigMulSmall(BigFromInt(fin), 365, 0), 0),
                       BigMulSmall(BigFromInt(pur), 3, 0), 0)
        basePrice == [n |-> BigMulSmall(cost, 14, 0), f |-> <<10950, 10>>]
    IN IF BigCmp(cost, <<>>) <= 0
       THEN (IF Truthy(car.pricePerDay) THEN car.pricePerDay ELSE 5000)
       ELSE Round2(basePrice)

(***************************************************************************)
(* Demand estimator: calculateDemandMultiplier                             *)
(***************************************************************************)
CarOf(id) == cars[id]

\* the three-way overlap test of the contract count
Overlaps(c, startDate, endDate) ==
  \/ (c.startDate >= startDate /\ c.startDate <= endDate)
  \/ (c.endDate >= startDate /\ c.endDate <= endDate)
  \/ (c.startDate <= startDate /\ c.endDate >= endDate)

\* the four segments without the final clamp
DemandScoreUnclamped(availableCars, totalCars) ==
  LET a == availableCars
      t == totalCars
      raw == IF 10 * a >= 7 * t THEN 700 * t + (10 * a - 7 * t) * 30
             ELSE IF 10 * a >= 4 * t THEN 900 * t + (7 * t - 10 * a) * 67
             ELSE IF 10 * a >= 2 * t THEN 1200 * t + (4 * t - 10 * a) * 250
             ELSE 1800 * t + (2 * t - 10 * a) * 350
  IN Frac(raw, 1000 * t)

\* the four segments with each boundary owned by the segment below it
DemandScoreStrict(availableCars, totalCars) ==
  LET a == availableCars
      t == totalCars
      raw == IF 10 * a > 7 * t THEN 700 * t + (10 * a - 7 * t) * 30
             ELSE IF 10 * a > 4 * t THEN 900 * t + (7 * t - 10 * a) * 67
             ELSE IF 10 * a > 2 * t THEN 1200 * t + (4 * t - 10 * a) * 250
             ELSE 1800 * t + (2 * t - 10 * a) * 350
      lo == 600 * t
      hi == 2500 * t
      clamped == IF raw > hi THEN hi ELSE IF raw < lo THEN lo ELSE raw
  IN Frac(clamped, 1000 * t)

\* the four segments and the clamp, for available / total, over 1000 * total
DemandScore(availableCars, totalCars) ==
  LET a == availableCars
      t == totalCars
      raw == IF 10 * a >= 7 * t THEN 700 * t + (10 * a - 7 * t) * 30
             ELSE IF 10 * a >= 4 * t THEN 900 * t + (7 * t - 10 * a) * 67
             ELSE IF 10 * a >= 2 * t THEN 1200 * t + (4 * t - 10 * a) * 250
             ELSE 1800 * t + (2 * t - 10 * a) * 350
      lo == 600 * t
      hi == 2500 * t
      clamped == IF raw > hi THEN hi ELSE IF raw < lo THEN lo ELSE raw
  IN Frac(clamped, 1000 * t)

calculateDemandMultiplier(cityId, startDate, endDate, faults) ==
  IF "demandCars" \in faults THEN One
  ELSE
    LET totalCars == Cardinality({ id \in DOMAIN cars :
                        /\ cars[id].cityId = cityId
                        /\ cars[id].availableForLease
                        /\ cars[id].state # "MAINTENANCE" })
    IN IF totalCars = 0 THEN One
       ELSE IF "demandContracts" \in faults THEN One
       ELSE
         LET overlappingContracts == Cardinality({ c \in contracts :
                        /\ c.carId \in DOMAIN cars
                        /\ cars[c.carId].cityId = cityId
                        /\ c.state \in {"ACTIVE", "DRAFT"}
                        /\ Overlaps(c, startDate, endDate) })
         IN DemandScore(totalCars - overlappingContracts, totalCars)

(***************************************************************************)
(* Seasonality estimator                                                   *)
(***************************************************************************)
getActiveSeasonalFactors(date, cityId, faults) ==
  IF "seasonal" \in faults THEN {}
  ELSE { f \in factors :
           /\ f.isActive
           /\ f.startDate <= date
           /\ f.endDate >= date
           /\ (f.cityId = cityId \/ f.cityId = Null) }

\* Math.max over the multipliers of a non-empty set of factors
MaxMultiplier(fs) ==
  (CHOOSE f \in fs : \A g \in fs : FracLeq(g.multiplier, f.multiplier)).multiplier

\* the estimator with the month curve applied on top of a custom factor
calculateSeasonalMultiplierLayered(startDate, duration, cityId, faults) ==
  LET customFactors == getActiveSeasonalFactors(startDate, cityId, faults)
      month == getMonth(startDate)
      curve == IF month >= 5 /\ month <= 7 THEN <<13, 10>>
               ELSE IF month >= 0 /\ month <= 2 THEN <<17, 20>>
               ELSE One
      m1 == IF customFactors # {} THEN FracMul(MaxMultiplier(customFactors), curve)
            ELSE curve
      dayOfWeek == getDay(startDate)
      m2 == IF duration <= 3
            THEN (IF dayOfWeek = 5 \/ dayOfWeek = 6 THEN <<23, 20>>
                  ELSE IF dayOfWeek = 1 THEN <<19, 20>> ELSE One)
            ELSE One
      isNearHoliday == \E holiday \in getHolidays(startDate) :
                          Abs(startDate - holiday) <= 2 * DAY
      m3 == IF isNearHoliday THEN <<5, 4>> ELSE One
      daysUntilStart == FloorDiv(startDate - now, DAY)
      m4 == IF daysUntilStart < 3 THEN <<23, 20>>
            ELSE IF daysUntilStart > 30 THEN <<19, 20>> ELSE One
  IN FracMul(FracMul(FracMul(m1, m2), m3), m4)

calculateSeasonalMultiplier(startDate, duration, cityId, faults) ==
  LET customFactors == getActiveSeasonalFactors(startDate, cityId, faults)
      month == getMonth(startDate)
      m1 == IF customFactors # {} THEN MaxMultiplier(customFactors)
            ELSE IF month >= 5 /\ month <= 7 THEN <<13, 10>>
            ELSE IF month >= 0 /\ month <= 2 THEN <<17, 20>>
            ELSE One
      dayOfWeek == getDay(startDate)
      m2 == IF duration <= 3
            THEN (IF dayOfWeek = 5 \/ dayOfWeek = 6 THEN <<23, 20>>
                  ELSE IF dayOfWeek = 1 THEN <<19, 20>> ELSE One)
            ELSE One
      isNearHoliday == \E holiday \in getHolidays(startDate) :
                          Abs(startDate - holiday) <= 2 * DAY
      m3 == IF isNearHoliday THEN <<5, 4>> ELSE One
      daysUntilStart == FloorDiv(startDate - now, DAY)
      m4 == IF daysUntilStart < 3 THEN <<23, 20>>
            ELSE IF daysUntilStart > 30 THEN <<19, 20>> ELSE One
  IN FracMul(FracMul(FracMul(m1, m2), m3), m4)

(***************************************************************************)
(* Utilization estimator and maintenance adjustment                        *)
(***************************************************************************)
\* the estimator without its try/catch: a failing store call escapes
calculateUtilizationMultiplierUncaught(carId, faults) ==
  IF "utilization" \in faults THEN THROWN
  ELSE IF carId \notin DOMAIN cars THEN One
  ELSE
    LET utilizationRate == cars[carId].utilizationRate
    IN IF utilizationRate = NullRate THEN One
       ELSE IF FracLess(utilizationRate, <<3, 10>>) THEN <<3, 4>>
       ELSE IF FracLess(utilizationRate, <<1, 2>>) THEN <<17, 20>>
       ELSE IF FracLess(<<9, 10>>, utilizationRate) THEN <<5, 4>>
       ELSE IF FracLess(<<3, 4>>, utilizationRate) THEN <<11, 10>>
       ELSE One

calculateUtilizationMultiplier(carId, faults) ==
  IF "utilization" \in faults THEN One
  ELSE IF carId \notin DOMAIN cars THEN One
  ELSE
    LET utilizationRate == cars[carId].utilizationRate
    IN IF utilizationRate = NullRate THEN One
       ELSE IF FracLess(utilizationRate, <<3, 10>>) THEN <<3, 4>>
       ELSE IF FracLess(utilizationRate, <<1, 2>>) THEN <<17, 20>>
       ELSE IF FracLess(<<9, 10>>, utilizationRate) THEN <<5, 4>>
       ELSE IF FracLess(<<3, 4>>, utilizationRate) THEN <<11, 10>>
       ELSE One

getMaintenanceMultiplier(car) ==
  IF ~Truthy(car.maintenanceScore) THEN One
  ELSE IF car.maintenanceScore >= 95 THEN <<21, 20>>
  ELSE IF car.maintenanceScore >= 85 THEN One
  ELSE IF car.maintenanceScore >= 70 THEN <<19, 20>>
  ELSE <<17, 20>>

(***************************************************************************)
(* Duration discounter                                                     *)
(***************************************************************************)
\* the table with its last threshold one day later
calculateDurationMultiplierLate(days) ==
  IF days <= 2 THEN One
  ELSE IF days <= 6 THEN <<19, 20>>
  ELSE IF days <= 13 THEN <<22, 25>>
  ELSE IF days <= 20 THEN <<41, 50>>
  ELSE IF days <= 30 THEN <<3, 4>>
  ELSE <<13, 20>>

calculateDurationMultiplier(days) ==
  IF days <= 2 THEN One
  ELSE IF days <= 6 THEN <<19, 20>>
  ELSE IF days <= 13 THEN <<22, 25>>
  ELSE IF days <= 20 THEN <<41, 50>>
  ELSE IF days <= 29 THEN <<3, 4>>
  ELSE <<13, 20>>

(***************************************************************************)
(* Loyalty estimator                                                       *)
(***************************************************************************)
RECURSIVE SumTotalPrice(_)
SumTotalPrice(cs) ==
  IF cs = {} THEN 0
  ELSE LET c == CHOOSE x \in cs : TRUE IN c.totalPrice + SumTotalPrice(cs \ {c})

\* the estimator without its try/catch
calculateCustomerMultiplierUncaught(userId, faults) ==
  IF ~Truthy(userId) THEN One
  ELSE IF "customer" \in faults THEN THROWN
  ELSE
    LET history == { c \in contracts : c.userId = userId /\ c.state \in {"COMPLETED", "ACTIVE"} }
        completedRentals == Cardinality({ c \in history : c.state = "COMPLETED" })
        lifetimeValue == SumTotalPrice(history)
        tier == IF completedRentals >= 2 /\ completedRentals <= 5 THEN 5
                ELSE IF completedRentals >= 6 /\ completedRentals <= 10 THEN 8
                ELSE IF completedRentals > 10 \/ lifetimeValue >= 500000 THEN 12
                ELSE 0
        sixtyDaysAgo == now - 60 * DAY
        recentRental == \E c \in history : c.endDate >= sixtyDaysAgo
        loyaltyDiscount == IF recentRental /\ tier > 0 THEN tier + 3 ELSE tier
        capped == IF loyaltyDiscount < 15 THEN loyaltyDiscount ELSE 15
    IN IF history = {} THEN One ELSE Frac(100 - capped, 100)

calculateCustomerMultiplier(userId, faults) ==
  IF ~Truthy(userId) THEN One
  ELSE IF "customer" \in faults THEN One
  ELSE
    LET history == { c \in contracts : c.userId = userId /\ c.state \in {"COMPLETED", "ACTIVE"} }
        completedRentals == Cardinality({ c \in history : c.state = "COMPLETED" })
        lifetimeValue == SumTotalPrice(history)
        tier == IF completedRentals >= 2 /\ completedRentals <= 5 THEN 5
                ELSE IF completedRentals >= 6 /\ completedRentals <= 10 THEN 8
                ELSE IF completedRentals > 10 \/ lifetimeValue >= 500000 THEN 12
                ELSE 0
        sixtyDaysAgo == now - 60 * DAY
        recentRental == \E c \in history : c.endDate >= sixtyDaysAgo
        loyaltyDiscount == IF recentRental /\ tier > 0 THEN tier + 3 ELSE tier
        capped == IF loyaltyDiscount < 15 THEN loyaltyDiscount ELSE 15
    IN IF history = {} THEN One ELSE Frac(100 - capped, 100)

(***************************************************************************)
(* Rule resolver: applyPricingRules                                        *)
(***************************************************************************)
\* first OR of the where clause: the scope of the rule
RuleScope(rule, car) ==
  \/ rule.carId = car.id
  \/ (rule.carId = Null /\ rule.cityId = car.cityId)
  \/ (rule.carId = Null /\ rule.cityId = Null)

\* second OR of the where clause: the date window of the rule; a comparison
\* with a NULL column is not true
RuleWindow(rule, startDate, endDate) ==
  \/ (rule.startDate = Null /\ rule.endDate = Null)
  \/ /\ rule.startDate # Null /\ rule.startDate <= endDate
     /\ rule.endDate # Null /\ rule.endDate >= startDate

\* The where clause is an object literal that spells the key OR twice: the
\* second value replaces the first, so the query filters on isActive and on
\* the date window only.
RuleWhere(rule, car, startDate, endDate) ==
  /\ rule.isActive
  /\ RuleWindow(rule, startDate, endDate)

\* orderBy priority asc
OrderByPriorityAsc(s) == \A i, j \in DOMAIN s : i < j => s[i].priority <= s[j].priority

\* orderBy priority desc; rows of equal priority come in any order
OrderByPriority(s) == \A i, j \in DOMAIN s : i < j => s[i].priority >= s[j].priority

\* the possible results of prisma.pricingRule.findMany
findManyRules(car, startDate, endDate) ==
  LET sel == { r \in rules : RuleWhere(r, car, startDate, endDate) }
      n   == Cardinality(sel)
  IN { s \in [1 .. n -> sel] :
         /\ \A i, j \in 1 .. n : i # j => s[i] # s[j]
         /\ OrderByPriority(s) }

\* one turn of the loop without the rule's own minimum and maximum
ApplyRuleWithoutClamp(rule, finalPrice) ==
  IF rule.fixedPrice # Null THEN Price(rule.fixedPrice)
  ELSE IF rule.multiplier # NullRate THEN PriceMul(finalPrice, rule.multiplier)
  ELSE finalPrice

\* one turn of the loop over the rules
ApplyRule(rule, finalPrice) ==
  LET p1 == IF rule.fixedPrice # Null THEN Price(rule.fixedPrice)
            ELSE IF rule.multiplier # NullRate THEN PriceMul(finalPrice, rule.multiplier)
            ELSE finalPrice
      p2 == IF rule.minPrice # Null THEN PriceMax(p1, Price(rule.minPrice)) ELSE p1
      p3 == IF rule.maxPrice # Null THEN PriceMin(p2, Price(rule.maxPrice)) ELSE p2
  IN p3

RECURSIVE RuleLoop(_, _, _, _)
RuleLoop(fetched, i, finalPrice, appliedRules) ==
  IF i > Len(fetched) THEN [finalPrice |-> finalPrice, rules |-> appliedRules]
  ELSE LET newPrice == ApplyRule(fetched[i], finalPrice)
       IN IF PriceCmp(newPrice, finalPrice) # 0
          THEN RuleLoop(fetched, i + 1, newPrice, Append(appliedRules, fetched[i].id))
          ELSE RuleLoop(fetched, i + 1, finalPrice, appliedRules)

\* fetched: the rows findMany returned; currentPrice in cents
applyPricingRules(fetched, currentPrice, faults) ==
  IF "rules" \in faults THEN [finalPrice |-> currentPrice, rules |-> <<>>]
  ELSE IF Len(fetched) = 0 THEN [finalPrice |-> currentPrice, rules |-> <<>>]
  ELSE LET out == RuleLoop(fetched, 1, Price(currentPrice), <<>>)
       IN [finalPrice |-> Round2(out.finalPrice), rules |-> out.rules]

(***************************************************************************)
(* Orchestrator: calculateDynamicPrice                                     *)
(***************************************************************************)
Args(carId, startDate, endDate, userId, saveSnapshot) ==
  [carId |-> carId, startDate |-> startDate, endDate |-> endDate,
   userId |-> userId, saveSnapshot |-> saveSnapshot]

Failure(reason) == [status |-> "error", reason |-> reason]

\* the lower bound without the vehicle's own minimum
minPriceDefault(car, basePrice) == <<basePrice * 6, 10>>

\* const minPrice = car.minPricePerDay || basePrice * 0.6
minPrice(car, basePrice) ==
  IF Truthy(car.minPricePerDay) THEN <<car.minPricePerDay, 1>> ELSE <<basePrice * 6, 10>>

\* const maxPrice = car.maxPricePerDay || basePrice * 2.5
maxPrice(car, basePrice) ==
  IF Truthy(car.maxPricePerDay) THEN <<car.maxPricePerDay, 1>> ELSE <<basePrice * 25, 10>>

\* Math.min(maxPrice, Math.max(minPrice, dynamicPrice))
ConstrainMinFirst(dynamicPrice, lo, hi) ==
  PriceMin(hi, PriceMax(lo, dynamicPrice))

\* step 7: Math.max(minPrice, Math.min(maxPrice, dynamicPrice))
Constrain(dynamicPrice, lo, hi) ==
  PriceMax(lo, PriceMin(hi, dynamicPrice))

\* the flat branch with the length-of-rental discount applied to it
FlatPriceDiscounted(car, startDate, endDate) ==
  LET duration == CeilDiv(endDate - startDate, DAY)
      durationMultiplier == calculateDurationMultiplier(duration)
      pricePerDay == RoundDiv(car.pricePerDay * durationMultiplier[1], durationMultiplier[2])
  IN [status |-> "ok", carId |-> car.id, car |-> car,
      basePrice |-> car.pricePerDay,
      pricePerDay |-> pricePerDay,
      totalPrice |-> pricePerDay * duration,
      duration |-> duration,
      mult |-> [demand |-> One, seasonal |-> One, utilization |-> One,
                duration |-> durationMultiplier, customer |-> One],
      isDynamic |-> FALSE]

\* the branch of a vehicle with dynamic pricing switched off
FlatPrice(car, startDate, endDate) ==
  LET duration == CeilDiv(endDate - startDate, DAY)
  IN [status |-> "ok", carId |-> car.id, car |-> car,
      basePrice |-> car.pricePerDay,
      pricePerDay |-> car.pricePerDay,
      totalPrice |-> car.pricePerDay * duration,
      duration |-> duration,
      mult |-> [demand |-> One, seasonal |-> One, utilization |-> One,
                duration |-> One, customer |-> One],
      isDynamic |-> FALSE]

\* steps 3 to 10 for a loaded, lease-eligible vehicle and duration >= 1
\* the product without the demand multiplier
RawDynamicPriceWithoutDemand(basePrice, demandMultiplier, seasonalMultiplier, utilizationMultiplier, maintenanceMultiplier, durationMultiplier, customerMultiplier) ==
  PriceMul(PriceMul(PriceMul(PriceMul(PriceMul(Price(basePrice),
    seasonalMultiplier), utilizationMultiplier),
    maintenanceMultiplier), durationMultiplier), customerMultiplier)

\* step 6: base price times the six multipliers, before constraints and rules
RawDynamicPrice(basePrice, demandMultiplier, seasonalMultiplier, utilizationMultiplier, maintenanceMultiplier, durationMultiplier, customerMultiplier) ==
  PriceMul(PriceMul(PriceMul(PriceMul(PriceMul(PriceMul(Price(basePrice),
    demandMultiplier), seasonalMultiplier), utilizationMultiplier),
    maintenanceMultiplier), durationMultiplier), customerMultiplier)

DynamicPrice(car, startDate, endDate, userId, duration, faults, fetched) ==
  LET basePrice == calculateBasePrice(car)
      demandMultiplier == calculateDemandMultiplier(car.cityId, startDate, endDate, faults)
      seasonalMultiplier == calculateSeasonalMultiplier(startDate, duration, car.cityId, faults)
      utilizationMultiplier == calculateUtilizationMultiplier(car.id, faults)
      durationMultiplier == calculateDurationMultiplier(duration)
      customerMultiplier == calculateCustomerMultiplier(userId, faults)
      all == <<demandMultiplier, seasonalMultiplier, utilizationMultiplier,
               durationMultiplier, customerMultiplier>>
  IN IF \E i \in DOMAIN all : all[i] = THROWN THEN Failure("estimator")
     ELSE
       LET maintenanceMultiplier == getMaintenanceMultiplier(car)
           raw == RawDynamicPrice(basePrice, demandMultiplier, seasonalMultiplier,
                    utilizationMultiplier, maintenanceMultiplier, durationMultiplier,
                    customerMultiplier)
           lo == minPrice(car, basePrice)
           hi == maxPrice(car, basePrice)
           dynamicPrice == Round2(Constrain(raw, PriceOfFrac(lo), PriceOfFrac(hi)))
           appliedRules == applyPricingRules(fetched, dynamicPrice, faults)
           finalPricePerDay == IF appliedRules.finalPrice # 0 THEN appliedRules.finalPrice
                               ELSE dynamicPrice
       IN [status |-> "ok", carId |-> car.id, car |-> car, cityId |-> car.cityId,
           basePrice |-> basePrice,
           pricePerDay |-> finalPricePerDay,
           totalPrice |-> finalPricePerDay * duration,
           duration |-> duration,
           mult |-> [demand |-> demandMultiplier, seasonal |-> seasonalMultiplier,
                     utilization |-> utilizationMultiplier,
                     maintenance |-> maintenanceMultiplier,
                     duration |-> durationMultiplier, customer |-> customerMultiplier],
           dynamicPrice |-> dynamicPrice,
           resolved |-> appliedRules.finalPrice,
           min |-> lo, max |-> hi,
           applied |-> (dynamicPrice # finalPricePerDay),
           rules |-> appliedRules.rules,
           fetched |-> IF "rules" \in faults THEN <<>> ELSE fetched,
           isDynamic |-> TRUE]

\* the result of the call, before the snapshot is written
calculateDynamicPrice(carId, startDate, endDate, userId, faults, fetched) ==
  IF "car" \in faults THEN Failure("store")
  ELSE IF carId \notin DOMAIN cars THEN Failure("Car not found")
  ELSE
    LET car == cars[carId]
    IN IF ~car.availableForLease THEN Failure("Car is not available for lease")
       ELSE IF ~car.useDynamicPricing THEN FlatPrice(car, startDate, endDate)
       ELSE
         LET duration == CeilDiv(endDate - startDate, DAY)
         IN IF duration < 1 THEN Failure("Rental duration must be at least 1 day")
            ELSE DynamicPrice(car, startDate, endDate, userId, duration, faults, fetched)

\* the rows the rule query of this call may return (none when the call never
\* reaches the resolver)
FetchChoices(carId, startDate, endDate) ==
  IF carId \in DOMAIN cars
  THEN findManyRules(cars[carId], startDate, endDate)
  ELSE { <<>> }

(***************************************************************************)
(* Snapshot writer: savePricingSnapshot                                    *)
(***************************************************************************)
\* the writer with the duration column left at its default of 1.0
savePricingSnapshotDefaultDuration(result, startDate, faults) ==
  IF faults \cap {"snapCars", "snapContracts", "snapCreate"} # {} THEN <<>>
  ELSE
    LET totalCars == Cardinality({ id \in DOMAIN cars :
                        cars[id].cityId = result.cityId /\ cars[id].availableForLease })
        activeContracts == Cardinality({ c \in contracts :
                        /\ c.carId \in DOMAIN cars
                        /\ cars[c.carId].cityId = result.cityId
                        /\ c.state = "ACTIVE" })
    IN << [carId |-> result.carId, cityId |-> result.cityId,
           calculatedPrice |-> result.dynamicPrice,
           basePrice |-> result.basePrice,
           demandMultiplier |-> result.mult.demand,
           seasonalMultiplier |-> result.mult.seasonal,
           utilizationMultiplier |-> result.mult.utilization,
           durationMultiplier |-> One,
           customerMultiplier |-> result.mult.customer,
           finalPrice |-> result.pricePerDay,
           availableCars |-> totalCars - activeContracts,
           activeContracts |-> activeContracts,
           requestDate |-> now, startDate |-> startDate,
           duration |-> result.duration, createdAt |-> now] >>

\* the writer without its try/catch: a failing store call escapes to the caller
savePricingSnapshotUncaught(result, startDate, faults) ==
  IF faults \cap {"snapCars", "snapContracts", "snapCreate"} # {} THEN THROWN
  ELSE savePricingSnapshotDefaultDuration(result, startDate, faults)

\* the rows the call adds to PricingSnapshot: one, or none when a store call
\* of the writer fails
savePricingSnapshot(result, startDate, faults) ==
  IF faults \cap {"snapCars", "snapContracts", "snapCreate"} # {} THEN <<>>
  ELSE
    LET totalCars == Cardinality({ id \in DOMAIN cars :
                        cars[id].cityId = result.cityId /\ cars[id].availableForLease })
        activeContracts == Cardinality({ c \in contracts :
                        /\ c.carId \in DOMAIN cars
                        /\ cars[c.carId].cityId = result.cityId
                        /\ c.state = "ACTIVE" })
    IN << [carId |-> result.carId, cityId |-> result.cityId,
           calculatedPrice |-> result.dynamicPrice,
           basePrice |-> result.basePrice,
           demandMultiplier |-> result.mult.demand,
           seasonalMultiplier |-> result.mult.seasonal,
           utilizationMultiplier |-> result.mult.utilization,
           durationMultiplier |-> result.mult.duration,
           customerMultiplier |-> result.mult.customer,
           finalPrice |-> result.pricePerDay,
           availableCars |-> totalCars - activeContracts,
           activeContracts |-> activeContracts,
           requestDate |-> now, startDate |-> startDate,
           duration |-> result.duration, createdAt |-> now] >>

\* step 11 without the test of saveSnapshot
SnapshotRowsAlways(saveSnapshot, result, startDate, faults) ==
  IF result.status = "ok" /\ result.isDynamic
  THEN savePricingSnapshot(result, startDate, faults)
  ELSE <<>>

\* step 11: the rows the call adds to PricingSnapshot
SnapshotRows(saveSnapshot, result, startDate, faults) ==
  IF saveSnapshot /\ result.status = "ok" /\ result.isDynamic
  THEN savePricingSnapshot(result, startDate, faults)
  ELSE <<>>

(***************************************************************************)
(* Bulk variant: getBulkPricePreviews                                      *)
(***************************************************************************)
Put(prices, carId, entry) ==
  [id \in (DOMAIN prices) \cup {carId} |-> IF id = carId THEN entry ELSE prices[id]]

\* carIds: the requested ids; faultsAt[i], fetchedAt[i]: the store failures
\* and the rule rows met while the i-th id is handled
RECURSIVE BulkLoop(_, _, _, _, _, _, _)
BulkLoop(carIds, i, startDate, endDate, faultsAt, fetchedAt, prices) ==
  IF i > Len(carIds) THEN [status |-> "ok", prices |-> prices]
  ELSE
    LET carId == carIds[i]
        result == calculateDynamicPrice(carId, startDate, endDate, Null,
                                        faultsAt[i], fetchedAt[i])
    IN IF result.status = "ok"
       THEN BulkLoop(carIds, i + 1, startDate, endDate, faultsAt, fetchedAt,
                     Put(prices, carId, [pricePerDay |-> result.pricePerDay,
                                         totalPrice |-> result.totalPrice]))
       ELSE \* catch: fall back to the database price
         IF "bulkCar" \in faultsAt[i]
         THEN [status |-> "aborted", prices |-> prices]
         ELSE IF carId \in DOMAIN cars
         THEN LET car == cars[carId]
                  duration == CeilDiv(endDate - startDate, DAY)
              IN BulkLoop(carIds, i + 1, startDate, endDate, faultsAt, fetchedAt,
                          Put(prices, carId, [pricePerDay |-> car.pricePerDay,
                                              totalPrice |-> car.pricePerDay * duration]))
         ELSE BulkLoop(carIds, i + 1, startDate, endDate, faultsAt, fetchedAt, prices)

getBulkPricePreviews(carIds, startDate, endDate, faultsAt, fetchedAt) ==
  BulkLoop(carIds, 1, startDate, endDate, faultsAt, fetchedAt, <<>>)

(***************************************************************************)
(* The stores                                                              *)
(***************************************************************************)
\* res is the response to the latest request: nothing yet, the response of an
\* admin endpoint, or the outcome of a price request; prev is the response that
\* was there when the latest price request came in
NoRes == [op |-> "none"]
AdminRes == [op |-> "admin"]

\* no run of the pricing jobs has started
NoRun == [pc |-> "idle"]

Car(id, cityId, lease, dynamic, flat, base, min, max, op, fin, pur, score, rate) ==
  [id |-> id, cityId |-> cityId, availableForLease |-> lease, state |-> "AVAILABLE",
   useDynamicPricing |-> dynamic, pricePerDay |-> flat, basePricePerDay |-> base,
   minPricePerDay |-> min, maxPricePerDay |-> max,
   dailyOperatingCost |-> op, monthlyFinancingCost |-> fin, purchasePrice |-> pur,
   maintenanceScore |-> score, utilizationRate |-> rate,
   lastUtilizationUpdate |-> Null]

\* the utilization rates of 2 and 4 were computed on 20 February; that of 1
\* never was and that of 3 was set to null
\* 1: dynamic, manual base price 33.33, no bounds; 2: flat price 40.00;
\* 3: dynamic, base price derived from its costs, bounds 30.00 and 90.00;
\* 4: not offered for lease
InitCars ==
  [id \in 1 .. 4 |->
     CASE id = 1 -> Car(1, 1, TRUE, TRUE, 4500, 3333, Null, Null, Null, Null, Null, 90, <<0, 1>>)
       [] id = 2 -> [Car(2, 1, TRUE, FALSE, 4000, Null, Null, Null, Null, Null, Null, 90, <<4, 5>>)
                       EXCEPT !.lastUtilizationUpdate = 100]
       [] id = 3 -> Car(3, 2, TRUE, TRUE, 6000, Null, 3000, 9000, 1200, 30000, 2500000, 60, NullRate)
       [] id = 4 -> [Car(4, 2, FALSE, TRUE, 5500, 5000, Null, Null, Null, Null, Null, 100, <<1, 2>>)
                       EXCEPT !.lastUtilizationUpdate = 100]]

Contract(id, carId, userId, state, startDate, endDate, totalPrice) ==
  [id |-> id, carId |-> carId, userId |-> userId, state |-> state,
   startDate |-> startDate, endDate |-> endDate, totalPrice |-> totalPrice]

InitContracts ==
  { Contract(1, 2, 1, "ACTIVE", 204, 212, 16000),
    Contract(2, 1, 1, "COMPLETED", 100, 110, 22500),
    Contract(3, 1, 1, "COMPLETED", 120, 130, 22500) }

Rule(id, carId, cityId, startDate, endDate, fixedPrice, multiplier, floor, ceiling, priority, isActive) ==
  [id |-> id, carId |-> carId, cityId |-> cityId, startDate |-> startDate,
   endDate |-> endDate, fixedPrice |-> fixedPrice, multiplier |-> multiplier,
   minPrice |-> floor, maxPrice |-> ceiling, priority |-> priority,
   isActive |-> isActive]

\* the bodies the admin posts to /api/admin/pricing/rules
RuleBodies ==
  { Rule("fixed50", Null, Null, Null, Null, 5000, NullRate, Null, Null, 10, TRUE),
    Rule("tenOff", Null, Null, Null, Null, Null, <<9, 10>>, Null, Null, 5, TRUE),
    Rule("car3Half", 3, Null, Null, Null, Null, <<1, 2>>, Null, Null, 7, TRUE),
    Rule("city2Summer", Null, 2, 300, 400, Null, <<3, 2>>, Null, 9000, 5, TRUE),
    Rule("free", 1, Null, Null, Null, 0, NullRate, Null, Null, 1, TRUE),
    Rule("floor50", Null, Null, Null, Null, Null, NullRate, 5000, Null, 8, TRUE),
    Rule("paused", Null, Null, Null, Null, 100, NullRate, Null, Null, 20, FALSE) }

Factor(id, startDate, endDate, multiplier, cityId, isActive) ==
  [id |-> id, startDate |-> startDate, endDate |-> endDate,
   multiplier |-> multiplier, cityId |-> cityId, isActive |-> isActive]

\* a spring campaign for every city, a summer campaign for city 2 and a
\* switched-off factor
InitFactors ==
  { Factor("spring", 180, 240, <<6, 5>>, Null, TRUE),
    Factor("summer2", 302, 484, <<7, 5>>, 2, TRUE),
    Factor("off", 0, 729, <<2, 1>>, Null, FALSE) }

\* the clock when the model starts: 11 April, 00:00
StartOfTime == 200

Init ==
  /\ cars = InitCars
  /\ contracts = InitContracts
  /\ rules = {}
  /\ factors = InitFactors
  /\ snapshots = <<>>
  /\ now = StartOfTime
  /\ res = NoRes
  /\ prev = NoRes
  /\ metrics = {}
  /\ minute = 0
  /\ calls = <<>>
  /\ run = NoRun

(***************************************************************************)
(* Bounds of the model                                                     *)
(***************************************************************************)
MaxRules == 2
MaxSnapshots == 1
MaxTicks == 1
MaxBulk == 2

(***************************************************************************)
(* Operations                                                              *)
(***************************************************************************)
\* POST /api/pricing/calculate, GET /api/pricing/preview/:carId and the other
\* callers of calculateDynamicPrice
CalculateDynamicPrice(carId, startDate, endDate, userId, saveSnapshot, faults) ==
  \E fetched \in FetchChoices(carId, startDate, endDate) :
    \E result \in { calculateDynamicPrice(carId, startDate, endDate, userId, faults, fetched) } :
      \E saved \in { SnapshotRows(saveSnapshot, result, startDate, faults) } :
        \E rows \in { IF saved = THROWN THEN <<>> ELSE saved } :
          /\ Cardinality({ i \in DOMAIN snapshots : snapshots[i].createdAt >= StartOfTime })
               + Len(rows) <= MaxSnapshots
          /\ snapshots' = snapshots \o rows
          /\ res' = [op |-> "calc",
                     args |-> Args(carId, startDate, endDate, userId, saveSnapshot),
                     faults |-> faults, at |-> now, wrote |-> Len(rows),
                     out |-> IF saved = THROWN THEN Failure("snapshot") ELSE result]
          /\ prev' = res
          /\ UNCHANGED <<run, metrics, minute, calls, cars, contracts, rules, factors, now>>

\* POST /api/pricing/bulk-calculate
GetBulkPricePreviews(carIds, startDate, endDate, faultsAt) ==
  \E fetchedAt \in { f \in [DOMAIN carIds -> UNION { FetchChoices(id, startDate, endDate) : id \in 1 .. 5 }] :
                      \A i \in DOMAIN carIds : f[i] \in FetchChoices(carIds[i], startDate, endDate) } :
    /\ res' = [op |-> "bulk", carIds |-> carIds, startDate |-> startDate,
               endDate |-> endDate, faultsAt |-> faultsAt, at |-> now,
               out |-> getBulkPricePreviews(carIds, startDate, endDate, faultsAt, fetchedAt)]
    /\ prev' = res
    /\ UNCHANGED <<run, metrics, minute, calls, cars, contracts, rules, factors, snapshots, now>>

\* POST /api/admin/pricing/rules: the body is stored as it is
CreatePricingRule(body) ==
  /\ Cardinality(rules) < MaxRules
  /\ body \notin rules
  /\ rules' = rules \cup {body}
  /\ res' = AdminRes
  /\ UNCHANGED <<run, metrics, minute, calls, cars, contracts, factors, snapshots, now, prev>>

\* DELETE /api/admin/pricing/rules/:id
DeletePricingRule(rule) ==
  /\ rule \in rules
  /\ rules' = rules \ {rule}
  /\ res' = AdminRes
  /\ UNCHANGED <<run, metrics, minute, calls, cars, contracts, factors, snapshots, now, prev>>

\* the caller reads the response of its price request; it sends the next
\* request after that
Idle == res.op \in {"none", "admin"}

ReadResponse ==
  /\ ~Idle
  /\ res' = NoRes
  /\ UNCHANGED <<run, metrics, minute, calls, cars, contracts, rules, factors, snapshots, now, prev>>

\* the clock advances by half a day
Tick ==
  /\ now < StartOfTime + MaxTicks
  /\ now' = now + 1
  /\ UNCHANGED <<run, metrics, minute, calls, cars, contracts, rules, factors, snapshots, res, prev>>

\* calculatePriceConstraints: the recommended base, min and max prices
calculatePriceConstraints(car) ==
  LET basePrice == calculateBasePrice(car)
  IN [basePricePerDay |-> basePrice,
      minPricePerDay |-> RoundDiv(basePrice * 6, 10),
      maxPricePerDay |-> RoundDiv(basePrice * 25, 10)]

\* a ?? b
Coalesce(a, b) == IF a # Null THEN a ELSE b

Body(min, max, calculatePrices) ==
  [useDynamicPricing |-> "undefined", basePricePerDay |-> Null,
   minPricePerDay |-> min, maxPricePerDay |-> max,
   dailyOperatingCost |-> Null, monthlyFinancingCost |-> Null,
   purchasePrice |-> Null, calculatePrices |-> calculatePrices]

\* PUT /api/admin/pricing/cars/:id/config
UpdateCarPricingConfig(id, body) ==
  /\ id \in DOMAIN cars
  /\ LET car == cars[id]
         shouldCalculatePrices ==
           \/ body.calculatePrices
           \/ /\ (body.dailyOperatingCost # Null \/ body.monthlyFinancingCost # Null
                    \/ body.purchasePrice # Null)
              /\ ~Truthy(body.basePricePerDay) /\ ~Truthy(body.minPricePerDay)
              /\ ~Truthy(body.maxPricePerDay)
           \/ (~Truthy(car.basePricePerDay) /\ ~Truthy(body.basePricePerDay))
         withCosts == [car EXCEPT
           !.dailyOperatingCost = Coalesce(body.dailyOperatingCost, @),
           !.monthlyFinancingCost = Coalesce(body.monthlyFinancingCost, @),
           !.purchasePrice = Coalesce(body.purchasePrice, @)]
         config == IF shouldCalculatePrices THEN calculatePriceConstraints(withCosts)
                   ELSE [basePricePerDay |-> Coalesce(body.basePricePerDay, car.basePricePerDay),
                         minPricePerDay |-> Coalesce(body.minPricePerDay, car.minPricePerDay),
                         maxPricePerDay |-> Coalesce(body.maxPricePerDay, car.maxPricePerDay)]
         updated == [withCosts EXCEPT
           !.useDynamicPricing = IF body.useDynamicPricing = "undefined" THEN @
                                 ELSE body.useDynamicPricing = "true",
           !.basePricePerDay = config.basePricePerDay,
           !.minPricePerDay = config.minPricePerDay,
           !.maxPricePerDay = config.maxPricePerDay]
     IN /\ updated # car
        /\ cars' = [cars EXCEPT ![id] = updated]
  /\ res' = AdminRes
  /\ UNCHANGED <<run, metrics, minute, calls, contracts, rules, factors, snapshots, now, prev>>

(***************************************************************************)
(* Inputs                                                                  *)
(***************************************************************************)
\* 14 April (a Tuesday, three days ahead), 20 June (a Saturday) and 23 June
\* (the eve of a holiday)
StartDates == {206, 340, 346}

\* end - start in half-days: ends before it starts, half a day, a week
Lengths == {-2, 1, 14}

Users == {Null, 1}

ConfigBodies ==
  { Body(3000, 4000, FALSE), Body(5000, 4000, FALSE), Body(3000, Null, FALSE),
    Body(Null, 4000, FALSE), Body(0, 0, FALSE), Body(Null, Null, TRUE) }

EstimatorFaults == {"demandCars", "demandContracts", "seasonal", "utilization", "customer", "rules"}
WriterFaults == {"snapCars", "snapContracts", "snapCreate"}

\* a preview meets every combination of failing estimators and resolver; a
\* call that persists meets none or all of them, with no or one failing store
\* call of the snapshot writer
FaultSets(saveSnapshot) ==
  IF saveSnapshot
  THEN { e \cup w : e \in {{}, EstimatorFaults},
                    w \in {{}} \cup { {x} : x \in WriterFaults } }
  ELSE SUBSET EstimatorFaults

(***************************************************************************)
(* Spec: price requests while the admin edits the pricing rules            *)
(***************************************************************************)
Next ==
  \/ /\ Idle
     /\ \E carId \in 1 .. 5, startDate \in StartDates, len \in Lengths, userId \in Users :
          CalculateDynamicPrice(carId, startDate, startDate + len, userId, FALSE, {})
  \/ ReadResponse
  \/ \E body \in RuleBodies : CreatePricingRule(body)
  \/ \E rule \in rules : DeletePricingRule(rule)
  \/ Tick

Spec == Init /\ [][Next]_vars

(***************************************************************************)
(* SpecBounds: price requests while the admin edits the price bounds       *)
(***************************************************************************)
NextBounds ==
  \/ /\ Idle
     /\ \E carId \in {1, 3}, startDate \in StartDates, len \in Lengths, userId \in Users :
          CalculateDynamicPrice(carId, startDate, startDate + len, userId, FALSE, {})
  \/ ReadResponse
  \/ \E carId \in {1, 3}, body \in ConfigBodies : UpdateCarPricingConfig(carId, body)
  \/ Tick

SpecBounds == Init /\ [][NextBounds]_vars

(***************************************************************************)
(* SpecFaults: price requests with persistence while store calls fail      *)
(***************************************************************************)
InitFaults ==
  /\ cars = InitCars
  /\ contracts = InitContracts
  /\ rules = { r \in RuleBodies : r.id = "tenOff" }
  /\ factors = InitFactors
  /\ snapshots = <<>>
  /\ now = StartOfTime
  /\ res = NoRes
  /\ prev = NoRes
  /\ metrics = {}
  /\ minute = 0
  /\ calls = <<>>
  /\ run = NoRun

NextFaults ==
  \/ /\ Idle
     /\ \E carId \in {1, 2, 3}, startDate \in {206}, len \in {14}, userId \in {1},
           saveSnapshot \in BOOLEAN :
          \E faults \in FaultSets(saveSnapshot) :
            CalculateDynamicPrice(carId, startDate, startDate + len, userId, saveSnapshot, faults)
  \/ ReadResponse
  \/ Tick

SpecFaults == InitFaults /\ [][NextFaults]_vars

(***************************************************************************)
(* SpecIdem: the same request sent again and again                         *)
(***************************************************************************)
NextIdem ==
  \/ \E carId \in {1}, startDate \in {206}, len \in {14}, userId \in {1},
        saveSnapshot \in BOOLEAN,
        faults \in {{}, {"seasonal"}, {"snapCars"}, {"snapContracts"}, {"snapCreate"}} :
       CalculateDynamicPrice(carId, startDate, startDate + len, userId, saveSnapshot, faults)
  \/ Tick

SpecIdem == InitFaults /\ [][NextIdem]_vars

(***************************************************************************)
(* SpecBulk: bulk previews                                                 *)
(***************************************************************************)
BulkFaultSets == { {}, {"car"}, {"car", "bulkCar"} }

NextBulk ==
  \/ /\ Idle
     /\ \E n \in 1 .. MaxBulk :
          \E carIds \in [1 .. n -> {1, 2, 5}], faultsAt \in [1 .. n -> BulkFaultSets],
             startDate \in {206}, len \in {-2, 14} :
            GetBulkPricePreviews(carIds, startDate, startDate + len, faultsAt)
  \/ ReadResponse
  \/ \E body \in { r \in RuleBodies : r.id \in {"tenOff", "fixed50"} } : CreatePricingRule(body)
  \/ Tick

SpecBulk == Init /\ [][NextBulk]_vars

(***************************************************************************)
(* SpecDemand: the demand step of a price request, over fleets and         *)
(* bookings of every size                                                  *)
(***************************************************************************)
MaxFleet == 10
MaxBookings == 11

\* the window every request of this specification asks for: 14 to 21 April
DemandStart == 206
DemandEnd == 220

\* n1 vehicles offered for lease in city 1 and n2 in city 2, then one vehicle
\* under maintenance in each city
Fleet(n1, n2) ==
  [id \in 1 .. n1 + n2 + 2 |->
     IF id <= n1 THEN Car(id, 1, TRUE, TRUE, 4500, 4000, Null, Null, Null, Null, Null, 90, <<0, 1>>)
     ELSE IF id <= n1 + n2 THEN Car(id, 2, TRUE, TRUE, 4500, 4000, Null, Null, Null, Null, Null, 90, <<0, 1>>)
     ELSE [Car(id, id - n1 - n2, TRUE, TRUE, 4500, 4000, Null, Null, Null, Null, Null, 90, <<0, 1>>)
             EXCEPT !.state = "MAINTENANCE"] ]

\* the vehicle of the j-th booking of a city: its vehicles in turn, the one
\* under maintenance when it has no other
BookedCar(j, first, n, spare) == IF n = 0 THEN spare ELSE first + ((j - 1) % n)

\* the j-th booking that overlaps the window: it starts in it, ends in it or
\* spans it; active and draft bookings alternate
Booking(id, carId, j) ==
  Contract(id, carId, 2, IF j % 2 = 1 THEN "ACTIVE" ELSE "DRAFT",
           CASE j % 3 = 0 -> DemandStart - 6 [] j % 3 = 1 -> DemandStart + 4 [] OTHER -> DemandStart - 6,
           CASE j % 3 = 0 -> DemandEnd + 10 [] j % 3 = 1 -> DemandEnd + 10 [] OTHER -> DemandStart + 2,
           16000)

\* k1 overlapping bookings in city 1 and k2 in city 2, and in city 1 a
\* completed, a cancelled and an earlier booking
Bookings(n1, n2, k1, k2) ==
  { Booking(j, BookedCar(j, 1, n1, n1 + n2 + 1), j) : j \in 1 .. k1 }
    \cup { Booking(100 + j, BookedCar(j, n1 + 1, n2, n1 + n2 + 2), j) : j \in 1 .. k2 }
    \cup { Contract(201, n1 + n2 + 1, 2, "COMPLETED", DemandStart, DemandEnd, 16000),
           Contract(202, n1 + n2 + 1, 2, "CANCELLED", DemandStart, DemandEnd, 16000),
           Contract(203, n1 + n2 + 1, 2, "ACTIVE", DemandStart - 60, DemandStart - 40, 16000) }

InitDemand ==
  /\ \E n1 \in 0 .. MaxFleet, k1 \in 0 .. MaxBookings, k2 \in 0 .. MaxBookings :
       /\ cars = Fleet(n1, MaxFleet)
       /\ contracts = Bookings(n1, MaxFleet, k1, k2)
  /\ rules = {}
  /\ factors = InitFactors
  /\ snapshots = <<>>
  /\ now = StartOfTime
  /\ res = NoRes
  /\ prev = NoRes
  /\ metrics = {}
  /\ minute = 0
  /\ calls = <<>>
  /\ run = NoRun

\* step 4 of a price request for a vehicle of the city: the demand estimator
DemandStep(cityId, startDate, endDate, faults) ==
  /\ res' = [op |-> "demand", cityId |-> cityId, startDate |-> startDate,
             endDate |-> endDate, faults |-> faults,
             out |-> calculateDemandMultiplier(cityId, startDate, endDate, faults)]
  /\ prev' = res
  /\ UNCHANGED <<run, metrics, minute, calls, cars, contracts, rules, factors, snapshots, now>>

\* a request for a vehicle of city 1, then one for a vehicle of city 2
NextDemand ==
  \/ /\ res.op = "none"
     /\ \E faults \in {{}, {"demandCars"}, {"demandContracts"}} :
          DemandStep(1, DemandStart, DemandEnd, faults)
  \/ /\ res.op = "demand" /\ res.cityId = 1 /\ res.faults = {}
     /\ DemandStep(2, DemandStart, DemandEnd, {})

SpecDemand == InitDemand /\ [][NextDemand]_vars

\* the vehicles of the city that count as supply, and the bookings that
\* count as demand for the window
Eligible(cityId) ==
  Cardinality({ id \in DOMAIN cars : cars[id].cityId = cityId
                  /\ cars[id].availableForLease /\ cars[id].state # "MAINTENANCE" })

Overlapping(cityId) ==
  Cardinality({ c \in contracts : cars[c.carId].cityId = cityId
                  /\ c.state \in {"ACTIVE", "DRAFT"}
                  /\ c.startDate <= DemandEnd /\ c.endDate >= DemandStart })

(***************************************************************************)
(* SpecLoyalty: the customer estimator over rental histories               *)
(***************************************************************************)
MaxCompleted == 12

\* the rental history of customer 1: `completed` completed rentals of the same
\* price, the last of them recent or not, and possibly one active rental,
\* current or long overdue; then rentals that do not count, and one rental
\* of customer 2
History(completed, price, recent, active) ==
  { Contract(j, 1, 1, "COMPLETED", 2 * j, 2 * j + 6,  price) : j \in 1 .. completed - 1 }
    \cup { Contract(completed, 1, 1, "COMPLETED",
                    IF recent THEN 150 ELSE 60, IF recent THEN 156 ELSE 66, price) :
           j \in 1 .. (IF completed > 0 THEN 1 ELSE 0) }
    \cup (CASE active = "current" -> { Contract(50, 1, 1, "ACTIVE", 196, 210, price) }
            [] active = "overdue" -> { Contract(50, 1, 1, "ACTIVE", 40, 50, price) }
            [] OTHER -> {})
    \cup { Contract(60, 1, 1, "CANCELLED", 190, 196, 600000),
           Contract(61, 1, 1, "DRAFT", 230, 236, 600000),
           Contract(62, 2, 2, "COMPLETED", 20, 30, 20000) }

InitLoyalty ==
  /\ \E completed \in 0 .. MaxCompleted, price \in {10000, 250000},
        recent \in BOOLEAN, active \in {"none", "current", "overdue"} :
       contracts = History(completed, price, recent, active)
  /\ cars = InitCars
  /\ rules = {}
  /\ factors = InitFactors
  /\ snapshots = <<>>
  /\ now = StartOfTime
  /\ res = NoRes
  /\ prev = NoRes
  /\ metrics = {}
  /\ minute = 0
  /\ calls = <<>>
  /\ run = NoRun

\* step 4 of a price request of the customer: the customer estimator
CustomerStep(userId, faults) ==
  /\ res.op = "none"
  /\ res' = [op |-> "customer", userId |-> userId, faults |-> faults,
             out |-> calculateCustomerMultiplier(userId, faults)]
  /\ prev' = res
  /\ UNCHANGED <<run, metrics, minute, calls, cars, contracts, rules, factors, snapshots, now>>

NextLoyalty ==
  \E userId \in {Null, 0, 1, 2, 3}, faults \in {{}, {"customer"}} :
    CustomerStep(userId, faults)

SpecLoyalty == InitLoyalty /\ [][NextLoyalty]_vars

(***************************************************************************)
(* SpecCondition: the utilization and maintenance steps over the vehicles  *)
(* the store can hold                                                      *)
(***************************************************************************)
MaxCreated == 1

\* the look-back of the utilization job, in days
LookbackDays == 90

\* rented days the job may have counted for vehicle 1 in its look-back
RentedDays == {0, 26, 27, 44, 45, 67, 68, 81, 82, 90}

\* vehicle 1 after the job stored rentedDays / 90 for it
InitCondition ==
  /\ \E rentedDays \in RentedDays :
       cars = [InitCars EXCEPT ![1].utilizationRate = Frac(rentedDays, LookbackDays),
                               ![1].lastUtilizationUpdate = StartOfTime - DAY]
  /\ contracts = InitContracts
  /\ rules = {}
  /\ factors = InitFactors
  /\ snapshots = <<>>
  /\ now = StartOfTime
  /\ res = NoRes
  /\ prev = NoRes
  /\ metrics = {}
  /\ minute = 0
  /\ calls = <<>>
  /\ run = NoRun

\* POST /cars: the pricing columns are not in the insert and take the
\* defaults of the table
CreateCar(cityId, pricePerDay) ==
  /\ Idle
  /\ Len(cars) < Len(InitCars) + MaxCreated
  /\ cars' = Append(cars, Car(Len(cars) + 1, cityId, TRUE, TRUE, pricePerDay,
                              Null, Null, Null, Null, Null, Null, 100, <<0, 1>>))
  /\ res' = AdminRes
  /\ UNCHANGED <<run, metrics, minute, calls, contracts, rules, factors, snapshots, now, prev>>

\* PUT /cars/:id with a body that holds a maintenance score
UpdateCar(id, maintenanceScore) ==
  /\ Idle
  /\ id \in DOMAIN cars
  /\ cars[id].maintenanceScore # maintenanceScore
  /\ cars' = [cars EXCEPT ![id].maintenanceScore = maintenanceScore]
  /\ res' = AdminRes
  /\ UNCHANGED <<run, metrics, minute, calls, contracts, rules, factors, snapshots, now, prev>>

\* step 4 of a price request for the vehicle: the utilization estimator
UtilizationStep(carId, faults) ==
  /\ Idle
  /\ res' = [op |-> "utilization", carId |-> carId, faults |-> faults,
             out |-> calculateUtilizationMultiplier(carId, faults)]
  /\ prev' = res
  /\ UNCHANGED <<run, metrics, minute, calls, cars, contracts, rules, factors, snapshots, now>>

\* step 5 of a price request for the vehicle: the maintenance multiplier
MaintenanceStep(carId) ==
  /\ Idle
  /\ carId \in DOMAIN cars
  /\ res' = [op |-> "maintenance", carId |-> carId,
             out |-> getMaintenanceMultiplier(cars[carId])]
  /\ prev' = res
  /\ UNCHANGED <<run, metrics, minute, calls, cars, contracts, rules, factors, snapshots, now>>

NextCondition ==
  \/ \E cityId \in {1}, pricePerDay \in {4000} : CreateCar(cityId, pricePerDay)
  \/ \E maintenanceScore \in {Null} \cup 0 .. 100 : UpdateCar(1, maintenanceScore)
  \/ \E carId \in {1, 2, 3, 5, 9}, faults \in {{}, {"utilization"}} :
       UtilizationStep(carId, faults)
  \/ \E carId \in {1, 3, 5} : MaintenanceStep(carId)

SpecCondition == InitCondition /\ [][NextCondition]_vars

(***************************************************************************)
(* SpecDuration: the duration discounter over rental lengths               *)
(***************************************************************************)
MaxDays == 35

\* step 4 of a price request of that many days: the duration discounter
DurationStep(days) ==
  /\ prev.op = "none"
  /\ res' = [op |-> "duration", days |-> days, out |-> calculateDurationMultiplier(days)]
  /\ prev' = res
  /\ UNCHANGED <<run, metrics, minute, calls, cars, contracts, rules, factors, snapshots, now>>

NextDuration == \E days \in 1 .. MaxDays : DurationStep(days)

SpecDuration == Init /\ [][NextDuration]_vars

(***************************************************************************)
(* The seasonality estimator on its own, over the start dates of a year    *)
(***************************************************************************)
MaxStart == 729

\* a campaign for city 2 that overlaps its summer campaign
PeakFactor == Factor("peak2", 340, 360, <<8, 5>>, 2, TRUE)

InitSeasonal ==
  /\ cars = InitCars
  /\ contracts = InitContracts
  /\ rules = {}
  /\ factors \in {InitFactors, InitFactors \cup {PeakFactor}}
  /\ snapshots = <<>>
  /\ now = StartOfTime
  /\ res = NoRes
  /\ prev = NoRes
  /\ metrics = {}
  /\ minute = 0
  /\ calls = <<>>
  /\ run = NoRun

\* step 2 of a price request: the seasonality estimator
SeasonalStep(startDate, duration, cityId, faults) ==
  /\ res.op = "none"
  /\ res' = [op |-> "seasonal", startDate |-> startDate, duration |-> duration,
             cityId |-> cityId, faults |-> faults,
             out |-> calculateSeasonalMultiplier(startDate, duration, cityId, faults)]
  /\ prev' = res
  /\ UNCHANGED <<run, metrics, minute, calls, cars, contracts, rules, factors, snapshots, now>>

NextSeasonal ==
  \E startDate \in 0 .. MaxStart, duration \in {3, 4}, cityId \in {Null, 2},
     faults \in {{}, {"seasonal"}} : SeasonalStep(startDate, duration, cityId, faults)

SpecSeasonal == InitSeasonal /\ [][NextSeasonal]_vars

(***************************************************************************)
(* SpecProduct: step 6 of a price request over the values the estimators   *)
(* return                                                                  *)
(***************************************************************************)
\* step 6 for a base price, a rental of `days` days and the multipliers the
\* other estimators returned
ProductStep(basePrice, demand, seasonal, utilization, maintenance, days, customer) ==
  /\ res.op = "none"
  /\ \E raw \in { RawDynamicPrice(basePrice, demand, seasonal, utilization, maintenance,
                                  calculateDurationMultiplier(days), customer) } :
       res' = [op |-> "product", basePrice |-> basePrice,
               mult |-> [demand |-> demand, seasonal |-> seasonal,
                         utilization |-> utilization, maintenance |-> maintenance,
                         customer |-> customer],
               days |-> days, raw |-> raw, cents |-> Round2(raw)]
  /\ prev' = res
  /\ UNCHANGED <<run, metrics, minute, calls, cars, contracts, rules, factors, snapshots, now>>

NextProduct ==
  \E basePrice \in {3333, 4000},
     demand \in {<<7, 10>>, One, <<8, 5>>},
     seasonal \in {One, <<13, 10>>},
     utilization \in {<<3, 4>>, One, <<11, 10>>},
     maintenance \in {<<17, 20>>, One, <<21, 20>>},
     days \in {1, 7, 30},
     customer \in {<<17, 20>>, <<19, 20>>, One} :
    ProductStep(basePrice, demand, seasonal, utilization, maintenance, days, customer)

SpecProduct == Init /\ [][NextProduct]_vars

(***************************************************************************)
(* Cached metrics accessor: getCityDemandMetrics, one store call per step  *)
(***************************************************************************)
\* minutes in one unit of `now` (half a day), and the freshness window
HALFDAY == 720
FRESH == 15

\* Date.now() in minutes
Clock == now * HALFDAY + minute

Drop(f, k) == [x \in (DOMAIN f) \ {k} |-> f[x]]

\* the object of the catch block
NeutralMetrics ==
  [totalCars |-> 0, availableCars |-> 0, activeContracts |-> 0,
   utilizationRate |-> <<0, 1>>, demandScore |-> One]

\* metrics.lastCalculated >= fifteenMinutesAgo
IsFreshInclusive(row) == row.lastCalculated >= Clock - FRESH

\* metrics.lastCalculated > fifteenMinutesAgo
IsFresh(row) == row.lastCalculated > Clock - FRESH

\* prisma.car.count of the accessor
CountLeaseCars(cityId) ==
  Cardinality({ id \in DOMAIN cars : cars[id].cityId = cityId /\ cars[id].availableForLease })

\* prisma.contract.count of the accessor
CountActiveContracts(cityId) ==
  Cardinality({ c \in contracts :
                  /\ c.carId \in DOMAIN cars
                  /\ cars[c.carId].cityId = cityId
                  /\ c.state = "ACTIVE"
                  /\ c.startDate * HALFDAY <= Clock
                  /\ c.endDate * HALFDAY >= Clock })

\* Math.max(0.6, Math.min(2.5, 2.5 - supplyRatio * 2))
SimpleDemandScore(totalCars, availableCars) ==
  LET raw == IF totalCars > 0 THEN <<5 * totalCars - 4 * availableCars, 2 * totalCars>>
             ELSE <<1, 2>>
  IN IF FracLess(<<5, 2>>, raw) THEN <<5, 2>>
     ELSE IF FracLess(raw, <<3, 5>>) THEN <<3, 5>>
     ELSE Frac(raw[1], raw[2])

\* the rows of CityDemandMetrics for the city
RowsOf(cityId) == { row \in metrics : row.cityId = cityId }

\* the row findUnique returns when there is one
RowOf(cityId) == CHOOSE row \in metrics : row.cityId = cityId

\* the row of the upsert
MetricsRow(id, cityId, totalCars, activeContracts) ==
  [id |-> id, cityId |-> cityId, totalCars |-> totalCars,
   availableCars |-> totalCars - activeContracts,
   activeContracts |-> activeContracts,
   utilizationRate |-> IF totalCars > 0 THEN Frac(activeContracts, totalCars) ELSE <<0, 1>>,
   demandScore |-> SimpleDemandScore(totalCars, totalCars - activeContracts),
   lastCalculated |-> Clock]

\* a call that ended: what it returns and whether it wrote the row
Done(call, out, hit, wrote) ==
  [pc |-> "done", cityId |-> call.cityId, faults |-> call.faults, job |-> call.job,
   out |-> out, hit |-> hit, wrote |-> wrote]

\* getCityDemandMetrics(cityId) is called; job: the call is made by the refresh job
CallMetrics(p, cityId, faults, job) ==
  /\ p \notin DOMAIN calls
  /\ calls' = Put(calls, p, [pc |-> "find", cityId |-> cityId, faults |-> faults, job |-> job])
  /\ UNCHANGED <<run, cars, contracts, rules, factors, snapshots, now, res, prev, metrics, minute>>

\* prisma.cityDemandMetrics.findUnique and the freshness test
FindMetrics(p) ==
  /\ p \in DOMAIN calls /\ calls[p].pc = "find"
  /\ LET call == calls[p]
     IN calls' = [calls EXCEPT ![p] =
          IF "metricsFind" \in call.faults THEN Done(call, NeutralMetrics, FALSE, FALSE)
          ELSE IF RowsOf(call.cityId) # {} /\ IsFresh(RowOf(call.cityId))
          THEN Done(call, RowOf(call.cityId), TRUE, FALSE)
          ELSE [call EXCEPT !.pc = "cars"]]
  /\ UNCHANGED <<run, cars, contracts, rules, factors, snapshots, now, res, prev, metrics, minute>>

\* prisma.car.count
CountCars(p) ==
  /\ p \in DOMAIN calls /\ calls[p].pc = "cars"
  /\ LET call == calls[p]
     IN calls' = [calls EXCEPT ![p] =
          IF "metricsCars" \in call.faults THEN Done(call, NeutralMetrics, FALSE, FALSE)
          ELSE [pc |-> "contracts", cityId |-> call.cityId, faults |-> call.faults,
                job |-> call.job, totalCars |-> CountLeaseCars(call.cityId)]]
  /\ UNCHANGED <<run, cars, contracts, rules, factors, snapshots, now, res, prev, metrics, minute>>

\* prisma.contract.count
CountContracts(p) ==
  /\ p \in DOMAIN calls /\ calls[p].pc = "contracts"
  /\ LET call == calls[p]
     IN calls' = [calls EXCEPT ![p] =
          IF "metricsContracts" \in call.faults THEN Done(call, NeutralMetrics, FALSE, FALSE)
          ELSE [pc |-> "upsert", cityId |-> call.cityId, faults |-> call.faults,
                job |-> call.job, totalCars |-> call.totalCars,
                activeContracts |-> CountActiveContracts(call.cityId)]]
  /\ UNCHANGED <<run, cars, contracts, rules, factors, snapshots, now, res, prev, metrics, minute>>

\* prisma.cityDemandMetrics.upsert, first half: the engine looks for the row
UpsertSelect(p) ==
  /\ p \in DOMAIN calls /\ calls[p].pc = "upsert"
  /\ LET call == calls[p]
     IN calls' = [calls EXCEPT ![p] =
          IF "metricsUpsert" \in call.faults THEN Done(call, NeutralMetrics, FALSE, FALSE)
          ELSE [pc |-> "write", cityId |-> call.cityId, faults |-> call.faults,
                job |-> call.job, totalCars |-> call.totalCars,
                activeContracts |-> call.activeContracts,
                found |-> (RowsOf(call.cityId) # {})]]
  /\ UNCHANGED <<run, cars, contracts, rules, factors, snapshots, now, res, prev, metrics, minute>>

\* second half without the unique index on cityId: the insert always succeeds
UpsertWriteWithoutUniqueIndex(p) ==
  /\ p \in DOMAIN calls /\ calls[p].pc = "write"
  /\ LET call == calls[p]
         id == IF call.found THEN RowOf(call.cityId).id ELSE Cardinality(metrics) + 1
         row == MetricsRow(id, call.cityId, call.totalCars, call.activeContracts)
     IN /\ metrics' = (IF call.found THEN metrics \ RowsOf(call.cityId) ELSE metrics) \cup {row}
        /\ calls' = [calls EXCEPT ![p] = Done(call, row, FALSE, TRUE)]
  /\ UNCHANGED <<run, cars, contracts, rules, factors, snapshots, now, res, prev, minute>>

\* second half: update of the row found, or insert; the insert of a row that
\* another call inserted meanwhile violates CityDemandMetrics_cityId_key
UpsertWrite(p) ==
  /\ p \in DOMAIN calls /\ calls[p].pc = "write"
  /\ LET call == calls[p]
         id == IF call.found THEN RowOf(call.cityId).id ELSE Cardinality(metrics) + 1
         row == MetricsRow(id, call.cityId, call.totalCars, call.activeContracts)
     IN IF ~call.found /\ RowsOf(call.cityId) # {}
        THEN /\ calls' = [calls EXCEPT ![p] = Done(call, NeutralMetrics, FALSE, FALSE)]
             /\ UNCHANGED metrics
        ELSE /\ metrics' = (metrics \ RowsOf(call.cityId)) \cup {row}
             /\ calls' = [calls EXCEPT ![p] = Done(call, row, FALSE, TRUE)]
  /\ UNCHANGED <<run, cars, contracts, rules, factors, snapshots, now, res, prev, minute>>

\* the caller takes the metrics object
ReturnMetrics(p) ==
  /\ p \in DOMAIN calls /\ calls[p].pc = "done" /\ ~calls[p].job
  /\ calls' = Drop(calls, p)
  /\ UNCHANGED <<run, cars, contracts, rules, factors, snapshots, now, res, prev, metrics, minute>>

getCityDemandMetrics(p) ==
  \/ FindMetrics(p)
  \/ CountCars(p)
  \/ CountContracts(p)
  \/ UpsertSelect(p)
  \/ UpsertWrite(p)

(***************************************************************************)
(* SpecMetrics: concurrent calls of the accessor while bookings and        *)
(* vehicles change                                                         *)
(***************************************************************************)
MaxMinutes == 20
MaxContracts == 4

\* five minutes pass
Wait ==
  /\ minute + 5 <= MaxMinutes
  /\ minute' = minute + 5
  /\ UNCHANGED <<run, cars, contracts, rules, factors, snapshots, now, res, prev, metrics, calls>>

\* POST /contracts: no test of the vehicle's availability or of overlaps
CreateContract(carId, startDate, endDate, userId) ==
  /\ carId \in DOMAIN cars
  /\ endDate > startDate
  /\ Cardinality(contracts) < MaxContracts
  /\ LET days == IF CeilDiv(endDate - startDate, DAY) > 1
                 THEN CeilDiv(endDate - startDate, DAY) ELSE 1
         id == 1 + Cardinality(contracts)
     IN contracts' = contracts \cup
          { Contract(id, carId, userId, "ACTIVE", startDate, endDate,
                     days * cars[carId].pricePerDay) }
  /\ UNCHANGED <<run, cars, rules, factors, snapshots, now, res, prev, metrics, minute, calls>>

\* PUT /contracts/:id with a state
UpdateContract(c, state) ==
  /\ c \in contracts
  /\ c.state # state
  /\ contracts' = (contracts \ {c}) \cup { [c EXCEPT !.state = state] }
  /\ UNCHANGED <<run, cars, rules, factors, snapshots, now, res, prev, metrics, minute, calls>>

\* PUT /cars/:id with availableForLease
SetAvailableForLease(id, flag) ==
  /\ id \in DOMAIN cars
  /\ cars[id].availableForLease # flag
  /\ cars' = [cars EXCEPT ![id].availableForLease = flag]
  /\ UNCHANGED <<run, contracts, rules, factors, snapshots, now, res, prev, metrics, minute, calls>>

NextMetrics ==
  \/ \E faults \in {{}, {"metricsFind"}, {"metricsCars"}, {"metricsContracts"}, {"metricsUpsert"}} :
       CallMetrics(1, 1, faults, FALSE)
  \/ CallMetrics(2, 1, {}, FALSE)
  \/ \E p \in {1, 2} : getCityDemandMetrics(p)
  \/ \E p \in {1, 2} : ReturnMetrics(p)
  \/ Wait
  \/ CreateContract(1, StartOfTime - 4, StartOfTime + 10, 2)

SpecMetrics == Init /\ [][NextMetrics]_vars

\* one caller of the accessor while contracts are created and closed and
\* vehicles are withdrawn from lease
NextFleet ==
  \/ CallMetrics(1, 1, {}, FALSE)
  \/ getCityDemandMetrics(1)
  \/ ReturnMetrics(1)
  \/ Wait
  \/ \E carId \in {1, 2} : CreateContract(carId, StartOfTime - 4, StartOfTime + 10, 2)
  \/ \E c \in { x \in contracts : x.id > Cardinality(InitContracts) } :
       UpdateContract(c, "COMPLETED")
  \/ \E id \in {1, 2} : SetAvailableForLease(id, FALSE)

SpecFleet == Init /\ [][NextFleet]_vars

(***************************************************************************)
(* Scheduled jobs: updateAllCityDemandMetrics, updateUtilizationRates,     *)
(* cleanupOldSnapshots and runAllPricingJobs, one store call per step      *)
(***************************************************************************)
\* the rows of City, in the order city.findMany returns them
Cities == <<1, 2>>

\* the caller id of the calls the refresh job makes
JOB == 0

\* the store failures of a run hit the first city and this vehicle
FaultyCity == 1
FaultyCar == 2

\* days kept by cleanupOldSnapshots
KeepDays == 90

SeqOf(S) == CHOOSE seq \in [1 .. Cardinality(S) -> S] :
              /\ \A i, j \in DOMAIN seq : i < j => seq[i] < seq[j]
              /\ Cardinality(S) = Len(seq)

\* Math.max(0, Math.ceil(ms / (1000 * 60 * 60 * 24))), ms in minutes
CeilDays(ms) == IF ms <= 0 THEN 0 ELSE (ms + DAY * HALFDAY - 1) \div (DAY * HALFDAY)

RECURSIVE TotalRentedDays(_, _)
TotalRentedDays(found, lookbackDate) ==
  IF found = {} THEN 0
  ELSE LET contract == CHOOSE c \in found : TRUE
           start == IF contract.startDate * HALFDAY > lookbackDate
                    THEN contract.startDate * HALFDAY ELSE lookbackDate
           end == IF contract.endDate * HALFDAY < Clock
                  THEN contract.endDate * HALFDAY ELSE Clock
       IN CeilDays(end - start) + TotalRentedDays(found \ {contract}, lookbackDate)

\* the function with its catch block removed: a failing store call escapes
updateCarUtilizationRateUncaught(carId, days, faults) ==
  IF faults \cap {"utilFind", "utilUpdate"} # {} \/ carId \notin DOMAIN cars
  THEN [threw |-> TRUE, logged |-> FALSE, wrote |-> FALSE, returned |-> <<0, 1>>]
  ELSE [threw |-> FALSE, logged |-> FALSE, wrote |-> TRUE, returned |-> <<0, 1>>,
        stored |-> <<0, 1>>]

\* updateCarUtilizationRate(carId, days): what it returns and what it stores
updateCarUtilizationRate(carId, days, faults) ==
  LET lookbackDate == Clock - days * DAY * HALFDAY
      found == { c \in contracts : /\ c.carId = carId
                                   /\ c.state \in {"ACTIVE", "COMPLETED"}
                                   /\ c.startDate * HALFDAY >= lookbackDate }
      caught == [threw |-> FALSE, logged |-> TRUE, wrote |-> FALSE, returned |-> <<0, 1>>]
      utilizationRate == Frac(TotalRentedDays(found, lookbackDate), days)
  IN IF "utilFind" \in faults THEN caught
     ELSE IF "utilUpdate" \in faults \/ carId \notin DOMAIN cars THEN caught
     ELSE IF found = {}
     THEN [threw |-> FALSE, logged |-> FALSE, wrote |-> TRUE, returned |-> <<0, 1>>,
           stored |-> <<0, 1>>]
     ELSE [threw |-> FALSE, logged |-> FALSE, wrote |-> TRUE, returned |-> utilizationRate,
           stored |-> IF FracLeq(One, utilizationRate) THEN One ELSE utilizationRate]

\* createdAt < ninetyDaysAgo, or equal to it
OlderThanInclusive(row, ninetyDaysAgo) == row.createdAt * HALFDAY <= ninetyDaysAgo

\* createdAt: { lt: ninetyDaysAgo }
OlderThan(row, ninetyDaysAgo) == row.createdAt * HALFDAY < ninetyDaysAgo

\* runAllPricingJobs() is called; the first job starts
RunAllPricingJobs(faults) ==
  /\ run.pc = "idle"
  /\ run' = [pc |-> "cities", faults |-> faults, started |-> Clock,
             order |-> <<"demand">>, todo |-> <<>>, cities |-> {}, listed |-> {},
             vehicles |-> {}, log |-> 0, last |-> [carId |-> Null], ninetyDaysAgo |-> Null,
             deleted |-> Null]
  /\ UNCHANGED <<cars, contracts, rules, factors, snapshots, now, res, prev, metrics, minute, calls>>

\* the end of updateAllCityDemandMetrics: updateUtilizationRates starts
StartUtilization(r) == [r EXCEPT !.pc = "vehicles", !.todo = <<>>,
                                 !.order = Append(r.order, "utilization")]

\* the end of updateUtilizationRates: cleanupOldSnapshots starts
StartCleanup(r) == [r EXCEPT !.pc = "cleanup", !.todo = <<>>,
                             !.order = Append(r.order, "cleanup")]

\* prisma.city.findMany of updateAllCityDemandMetrics
JobFindCities ==
  /\ run.pc = "cities"
  /\ run' = IF "cities" \in run.faults
            THEN StartUtilization([run EXCEPT !.log = run.log + 1])
            ELSE [run EXCEPT !.pc = "city", !.todo = Cities]
  /\ UNCHANGED <<cars, contracts, rules, factors, snapshots, now, res, prev, metrics, minute, calls>>

\* the loop of updateAllCityDemandMetrics calls the accessor for the next city
JobCallCity ==
  /\ run.pc = "city" /\ run.todo # <<>> /\ JOB \notin DOMAIN calls
  /\ calls' = Put(calls, JOB, [pc |-> "find", cityId |-> Head(run.todo),
                  faults |-> IF Head(run.todo) = FaultyCity THEN run.faults ELSE {},
                  job |-> TRUE])
  /\ UNCHANGED <<run, cars, contracts, rules, factors, snapshots, now, res, prev, metrics, minute>>

\* the accessor returned to the loop; after the last city the job ends
JobCityDone ==
  /\ run.pc = "city" /\ JOB \in DOMAIN calls /\ calls[JOB].pc = "done"
  /\ LET call == calls[JOB]
         after == [run EXCEPT !.todo = Tail(run.todo),
                              !.cities = run.cities \cup {call.cityId},
                              !.log = run.log + (IF call.hit \/ call.wrote THEN 0 ELSE 1)]
     IN run' = IF Tail(run.todo) = <<>> THEN StartUtilization(after) ELSE after
  /\ calls' = Drop(calls, JOB)
  /\ UNCHANGED <<cars, contracts, rules, factors, snapshots, now, res, prev, metrics, minute>>

\* prisma.car.findMany of updateAllCarUtilizationRates
JobFindCars ==
  /\ run.pc = "vehicles"
  /\ LET ids == { id \in DOMAIN cars : cars[id].availableForLease }
     IN run' = IF "jobCars" \in run.faults
               THEN StartCleanup([run EXCEPT !.log = run.log + 1])
               ELSE IF ids = {} THEN StartCleanup(run)
               ELSE [run EXCEPT !.pc = "vehicle", !.todo = SeqOf(ids), !.listed = ids]
  /\ UNCHANGED <<cars, contracts, rules, factors, snapshots, now, res, prev, metrics, minute, calls>>

\* the loop of updateAllCarUtilizationRates: updateCarUtilizationRate(car.id)
JobVehicle ==
  /\ run.pc = "vehicle" /\ run.todo # <<>>
  /\ \E carId \in {Head(run.todo)} :
      \E r \in { updateCarUtilizationRate(carId, LookbackDays,
                    IF carId = FaultyCar THEN run.faults ELSE {}) } :
        /\ cars' = IF r.wrote
                   THEN [cars EXCEPT ![carId].utilizationRate = r.stored,
                                     ![carId].lastUtilizationUpdate = now]
                   ELSE cars
        /\ LET after == [run EXCEPT !.todo = Tail(run.todo),
                                    !.vehicles = run.vehicles \cup {carId},
                                    !.log = run.log + (IF r.logged \/ r.threw THEN 1 ELSE 0),
                                    !.last = [carId |-> carId, returned |-> r.returned,
                                              wrote |-> r.wrote]]
           IN run' = IF r.threw \/ Tail(run.todo) = <<>> THEN StartCleanup(after) ELSE after
  /\ UNCHANGED <<contracts, rules, factors, snapshots, now, res, prev, metrics, minute, calls>>

\* cleanupOldSnapshots computes ninetyDaysAgo
JobCleanupStart ==
  /\ run.pc = "cleanup"
  /\ run' = [run EXCEPT !.pc = "delete", !.ninetyDaysAgo = Clock - KeepDays * DAY * HALFDAY]
  /\ UNCHANGED <<cars, contracts, rules, factors, snapshots, now, res, prev, metrics, minute, calls>>

\* prisma.pricingSnapshot.deleteMany; runAllPricingJobs resolves
JobCleanupDelete ==
  /\ run.pc = "delete"
  /\ IF "deleteMany" \in run.faults
     THEN /\ run' = [run EXCEPT !.pc = "complete", !.log = run.log + 1]
          /\ UNCHANGED snapshots
     ELSE /\ snapshots' = SelectSeq(snapshots, LAMBDA row : ~OlderThan(row, run.ninetyDaysAgo))
          /\ run' = [run EXCEPT !.pc = "complete",
                        !.deleted = Len(snapshots) - Len(snapshots')]
  /\ UNCHANGED <<cars, contracts, rules, factors, now, res, prev, metrics, minute, calls>>

\* DELETE /cars/:id: the contracts and the pricing snapshots of the vehicle
\* go with it (ON DELETE CASCADE)
DeleteCar(id) ==
  /\ id \in DOMAIN cars
  /\ cars' = Drop(cars, id)
  /\ contracts' = { c \in contracts : c.carId # id }
  /\ snapshots' = SelectSeq(snapshots, LAMBDA row : row.carId # id)
  /\ UNCHANGED <<run, rules, factors, now, res, prev, metrics, minute, calls>>

\* a row of PricingSnapshot an earlier price request of vehicle 1 or 3 stored
StoredSnapshot(carId, createdAt) ==
  [carId |-> carId, cityId |-> InitCars[carId].cityId,
   calculatedPrice |-> 3102, basePrice |-> 3333,
   demandMultiplier |-> One, seasonalMultiplier |-> One,
   utilizationMultiplier |-> One, durationMultiplier |-> One,
   customerMultiplier |-> One, finalPrice |-> 3102,
   availableCars |-> 2, activeContracts |-> 0,
   requestDate |-> createdAt, startDate |-> createdAt + DAY,
   duration |-> 1, createdAt |-> createdAt]

\* a booking of vehicle 2 that began 100 days ago and ended 80 days ago
BookingBeforeWindow == Contract(4, 2, 2, "COMPLETED", StartOfTime - 100 * DAY, StartOfTime - 80 * DAY, 80000)

\* snapshots of 100, 90 and 50 days ago; the metrics of city 1 were computed
\* 10 minutes ago by a price request
InitJobs ==
  /\ cars = InitCars
  /\ contracts = InitContracts \cup {BookingBeforeWindow}
  /\ rules = {}
  /\ factors = InitFactors
  /\ snapshots = << StoredSnapshot(1, StartOfTime - 100 * DAY),
                    StoredSnapshot(3, StartOfTime - 90 * DAY),
                    StoredSnapshot(1, StartOfTime - 50 * DAY) >>
  /\ now = StartOfTime
  /\ res = NoRes
  /\ prev = NoRes
  /\ minute = 0
  /\ metrics = { [MetricsRow(1, 1, 2, 0) EXCEPT !.lastCalculated = StartOfTime * HALFDAY - 10] }
  /\ calls = <<>>
  /\ run = NoRun

RunFaults == {{}, {"cities"}, {"metricsFind"}, {"jobCars"}, {"utilFind"}, {"utilUpdate"}, {"deleteMany"}}

NextJobs ==
  \/ \E faults \in RunFaults : RunAllPricingJobs(faults)
  \/ JobFindCities
  \/ JobCallCity
  \/ getCityDemandMetrics(JOB)
  \/ JobCityDone
  \/ JobFindCars
  \/ JobVehicle
  \/ JobCleanupStart
  \/ JobCleanupDelete
  \/ Wait
  \/ CalculateDynamicPrice(1, StartOfTime + DAY, StartOfTime + 3 * DAY, Null, TRUE, {})
  \/ DeleteCar(1)

SpecJobs == InitJobs /\ [][NextJobs]_vars

\* the steps of a run; the runtime resumes an awaited call when it settles
JobStep ==
  \/ JobFindCities
  \/ JobCallCity
  \/ getCityDemandMetrics(JOB)
  \/ JobCityDone
  \/ JobFindCars
  \/ JobVehicle
  \/ JobCleanupStart
  \/ JobCleanupDelete

SpecJobsFair == SpecJobs /\ WF_vars(JobStep)

(***************************************************************************)
(* Properties                                                              *)
(***************************************************************************)
\* the latest response is a returned price
Returned == res.op = "calc" /\ res.out.status = "ok"

\* ... of the dynamic branch
ReturnedDynamic == Returned /\ res.out.isDynamic

\* C1, as the specification states it: the final pricePerDay of every returned
\* result lies within [minPricePerDay, maxPricePerDay] when the vehicle has both
\* bounds set, and within [0.6 x base, 2.5 x base] otherwise, whatever pricing
\* rules exist.
C1_FinalPriceWithinBounds ==
  Returned =>
    LET car == res.out.car
        b == res.out.basePrice
        p == res.out.pricePerDay
    IN IF car.minPricePerDay # Null /\ car.maxPricePerDay # Null
       THEN car.minPricePerDay <= p /\ p <= car.maxPricePerDay
       ELSE 6 * b <= 10 * p /\ 10 * p <= 25 * b

\* C1, amended: when no pricing rule changes the price (breakdown.rules is
\* empty), the final pricePerDay of a dynamically priced vehicle lies between
\* lo and hi rounded to cents, where lo is minPricePerDay when it is set and
\* not zero and 0.6 x base otherwise, hi is maxPricePerDay when it is set and
\* not zero and 2.5 x base otherwise, provided lo <= hi.
C1_FinalPriceWithinBoundsWithoutRules ==
  (ReturnedDynamic /\ res.out.rules = <<>>) =>
    LET car == res.out.car
        b == res.out.basePrice
        p == res.out.pricePerDay
        lo == IF car.minPricePerDay \notin {Null, 0} THEN <<car.minPricePerDay, 1>> ELSE <<6 * b, 10>>
        hi == IF car.maxPricePerDay \notin {Null, 0} THEN <<car.maxPricePerDay, 1>> ELSE <<25 * b, 10>>
    IN FracLeq(lo, hi) => (RoundDiv(lo[1], lo[2]) <= p /\ p <= RoundDiv(hi[1], hi[2]))

\* C1, witness: rules exist, none of them changes the price, and the price of
\* a vehicle with both bounds set was raised to its minimum
C1_Witness ==
  /\ ReturnedDynamic
  /\ rules # {}
  /\ res.out.rules = <<>>
  /\ res.out.car.minPricePerDay # Null /\ res.out.car.maxPricePerDay # Null
  /\ res.out.pricePerDay = res.out.car.minPricePerDay

\* C2, as the specification states it: breakdown.dynamicPrice lies within
\* [minPricePerDay ?? 0.6 x base, maxPricePerDay ?? 2.5 x base] for every
\* combination of set, unset and zero-valued bounds.
C2_DynamicPriceWithinNullishBounds ==
  ReturnedDynamic =>
    LET car == res.out.car
        b == res.out.basePrice
        d == res.out.dynamicPrice
        lo == IF car.minPricePerDay # Null THEN <<car.minPricePerDay, 1>> ELSE <<6 * b, 10>>
        hi == IF car.maxPricePerDay # Null THEN <<car.maxPricePerDay, 1>> ELSE <<25 * b, 10>>
    IN lo[1] <= d * lo[2] /\ d * hi[2] <= hi[1]

\* C2, amended: with lo = minPricePerDay when it is set and not zero and
\* 0.6 x base otherwise, and hi = maxPricePerDay when it is set and not zero and
\* 2.5 x base otherwise, breakdown.dynamicPrice lies between lo and hi rounded
\* to cents when lo <= hi, and is lo rounded to cents when lo > hi.
C2_DynamicPriceWithinTruthyBounds ==
  ReturnedDynamic =>
    LET car == res.out.car
        b == res.out.basePrice
        d == res.out.dynamicPrice
        lo == IF car.minPricePerDay \notin {Null, 0} THEN <<car.minPricePerDay, 1>> ELSE <<6 * b, 10>>
        hi == IF car.maxPricePerDay \notin {Null, 0} THEN <<car.maxPricePerDay, 1>> ELSE <<25 * b, 10>>
    IN IF FracLeq(lo, hi)
       THEN RoundDiv(lo[1], lo[2]) <= d /\ d <= RoundDiv(hi[1], hi[2])
       ELSE d = RoundDiv(lo[1], lo[2])

\* C2, witness: only the lower bound of the vehicle is set and the price was
\* raised to it
C2_Witness ==
  /\ ReturnedDynamic
  /\ res.out.car.minPricePerDay \notin {Null, 0}
  /\ res.out.car.maxPricePerDay = Null
  /\ res.out.dynamicPrice = res.out.car.minPricePerDay

\* the rules of the documented example are the ones the query returned
ExampleFetched ==
  /\ ReturnedDynamic
  /\ { res.out.fetched[i].id : i \in DOMAIN res.out.fetched } = {"fixed50", "tenOff"}

\* C3, as the specification states it: with a fixedPrice = 50 rule of priority
\* 10 and a multiplier = 0.9 rule of priority 5 matching, the fixed price is
\* applied last and the final price is exactly 50.
C3_FixedPriceWins == ExampleFetched => res.out.pricePerDay = 5000

\* C3, amended: the resolver applies the matching rules in descending priority
\* order, the rule of highest priority first; with a fixedPrice = 50 rule of
\* priority 10 and a multiplier = 0.9 rule of priority 5 the final price is
\* exactly 45.
C3_HighestPriorityFirst ==
  ReturnedDynamic =>
    /\ \A i, j \in DOMAIN res.out.fetched :
         i < j => res.out.fetched[i].priority >= res.out.fetched[j].priority
    /\ ExampleFetched => res.out.pricePerDay = 4500

\* C3, witness: both rules of the example were applied, the fixed price first
C3_Witness ==
  /\ ExampleFetched
  /\ res.out.rules = <<"fixed50", "tenOff">>
  /\ res.out.pricePerDay = 4500

\* C4: a rule that changed the price is active, its date window is absent or
\* overlaps the rental, and its scope is the vehicle, the vehicle's city with
\* no vehicle set, or global.
C4_OnlyMatchingRulesApply ==
  ReturnedDynamic =>
    \A i \in DOMAIN res.out.rules :
      \E r \in RuleBodies :
        /\ r.id = res.out.rules[i]
        /\ r.isActive
        /\ RuleWindow(r, res.args.startDate, res.args.endDate)
        /\ RuleScope(r, res.out.car)

\* C5: the call aborts with an error whenever the vehicle does not exist, is
\* not lease-eligible or the duration is below 1 day, whatever the dynamic
\* flag of the vehicle; no returned result has a duration below 1.
C5_InvalidRequestsAbort ==
  res.op = "calc" =>
    /\ ( \/ res.args.carId \notin DOMAIN cars
         \/ ~cars[res.args.carId].availableForLease
         \/ CeilDiv(res.args.endDate - res.args.startDate, DAY) < 1 )
       => res.out.status = "error"
    /\ res.out.status = "ok" => res.out.duration >= 1

\* C6: once the vehicle is loaded, is lease-eligible and the duration is at
\* least 1 day, the call returns a numeric price under every combination of
\* failing store calls of the estimators, the resolver and the snapshot writer:
\* a failing estimator counts as 1.0 (the seasonal one as its built-in curve),
\* a failing resolver as no rules, a failing writer writes nothing.
C6_StoreFailuresAreAbsorbed ==
  ( /\ res.op = "calc"
    /\ "car" \notin res.faults
    /\ res.args.carId \in DOMAIN cars
    /\ cars[res.args.carId].availableForLease
    /\ CeilDiv(res.args.endDate - res.args.startDate, DAY) >= 1 )
  =>
    /\ res.out.status = "ok"
    /\ res.out.pricePerDay \in Nat
    /\ res.out.totalPrice = res.out.pricePerDay * res.out.duration
    /\ res.out.isDynamic =>
         /\ (res.faults \cap {"demandCars", "demandContracts"} # {}) => res.out.mult.demand = One
         /\ "utilization" \in res.faults => res.out.mult.utilization = One
         /\ "customer" \in res.faults => res.out.mult.customer = One
         /\ "seasonal" \in res.faults =>
              res.out.mult.seasonal =
                IF FloorDiv(res.args.startDate - res.at, DAY) < 3 THEN <<23, 20>> ELSE One
         /\ "rules" \in res.faults =>
              res.out.rules = <<>> /\ res.out.pricePerDay = res.out.dynamicPrice
    /\ (res.faults \cap WriterFaults # {}) => res.wrote = 0

\* C6, witness: every estimator, the resolver and the writer failed and the
\* call that asked for a snapshot returned a dynamic price
C6_Witness ==
  /\ ReturnedDynamic
  /\ res.args.saveSnapshot
  /\ res.faults = EstimatorFaults \cup {"snapCreate"}
  /\ res.out.pricePerDay > 0

\* C7: for a lease-eligible vehicle with dynamic pricing disabled the call
\* returns pricePerDay equal to the flat price, totalPrice equal to the flat
\* price times the duration and every multiplier 1.0, whatever rules, seasonal
\* factors, demand and customer history exist.
C7_FlatPriceWhenDisabled ==
  ( /\ res.op = "calc"
    /\ res.args.carId \in DOMAIN cars
    /\ cars[res.args.carId].availableForLease
    /\ ~cars[res.args.carId].useDynamicPricing )
  =>
    /\ res.out.status = "ok"
    /\ ~res.out.isDynamic
    /\ res.out.pricePerDay = cars[res.args.carId].pricePerDay
    /\ res.out.totalPrice = cars[res.args.carId].pricePerDay
                              * CeilDiv(res.args.endDate - res.args.startDate, DAY)
    /\ \A k \in DOMAIN res.out.mult : res.out.mult[k] = One

\* C7, witness: a week of a flat-priced vehicle was priced for a returning
\* customer while global rules were in force
C7_Witness ==
  /\ Returned
  /\ ~res.out.car.useDynamicPricing
  /\ res.out.duration = 7
  /\ res.args.userId # Null
  /\ \E r \in rules : r.isActive /\ r.carId = Null /\ r.cityId = Null
  /\ res.out.totalPrice = 7 * res.out.car.pricePerDay

\* C8: getBulkPricePreviews never aborts the batch and returns an entry for
\* each requested id that exists.
C8_BulkNeverAborts ==
  res.op = "bulk" =>
    /\ res.out.status = "ok"
    /\ \A i \in DOMAIN res.carIds :
         res.carIds[i] \in DOMAIN cars => res.carIds[i] \in DOMAIN res.out.prices

\* two consecutive calls with saveSnapshot = false, the same arguments and the
\* same outcomes of the store calls
SameCallTwice ==
  /\ prev.op = "calc" /\ res.op = "calc"
  /\ ~prev.args.saveSnapshot
  /\ prev.args = res.args
  /\ prev.faults = res.faults

Recorded(s) ==
  PriceMul(PriceMul(PriceMul(PriceMul(PriceMul(Price(s.basePrice),
    s.demandMultiplier), s.seasonalMultiplier), s.utilizationMultiplier),
    s.durationMultiplier), s.customerMultiplier)

\* the vehicle of the row has a maintenance multiplier of 1.0, the recorded
\* product lies within the price bounds of the vehicle, and no rule changed
\* the price
Undisturbed(s) ==
  LET car == cars[s.carId]
      lo == IF car.minPricePerDay \notin {Null, 0} THEN <<car.minPricePerDay, 1>> ELSE <<6 * s.basePrice, 10>>
      hi == IF car.maxPricePerDay \notin {Null, 0} THEN <<car.maxPricePerDay, 1>> ELSE <<25 * s.basePrice, 10>>
      score == car.maintenanceScore
  IN /\ score \in {Null, 0} \/ (85 <= score /\ score < 95)
     /\ PriceCmp(PriceOfFrac(lo), Recorded(s)) <= 0
     /\ PriceCmp(Recorded(s), PriceOfFrac(hi)) <= 0
     /\ s.finalPrice = s.calculatedPrice

\* C10, as the specification states it: for every snapshot row, base price
\* times the recorded multipliers, rounded to cents, is within 1 cent of the
\* recorded final price.
C10_SnapshotReproducesPrice ==
  \A i \in DOMAIN snapshots :
    LET s == snapshots[i]
        d == Round2(Recorded(s)) - s.finalPrice
    IN -1 <= d /\ d <= 1

\* C10, amended: for every snapshot row of a vehicle whose maintenance
\* multiplier is 1.0, base price times the recorded multipliers, rounded to
\* cents, is within 1 cent of the recorded final price when that product lies
\* within the price bounds of the vehicle and no pricing rule changed the
\* price.
C10_SnapshotReproducesUndisturbedPrice ==
  \A i \in DOMAIN snapshots :
    LET s == snapshots[i]
        d == Round2(Recorded(s)) - s.finalPrice
    IN Undisturbed(s) => (-1 <= d /\ d <= 1)

\* C10, witness: a row of such a vehicle was written with a discount for the
\* length of the rental
C10_Witness ==
  \E i \in DOMAIN snapshots :
    /\ Undisturbed(snapshots[i])
    /\ snapshots[i].durationMultiplier # One

\* the latest call asked for a snapshot while a store call of the writer failed
SnapshotWriteFailed ==
  /\ res.op = "calc"
  /\ res.args.saveSnapshot
  /\ res.faults \cap WriterFaults # {}

\* the call before it was the same call with saveSnapshot = false, at the same
\* instant and with the same outcomes of the other store calls
SameCallWithoutSnapshot ==
  /\ prev.op = "calc"
  /\ prev.args = [res.args EXCEPT !.saveSnapshot = FALSE]
  /\ prev.at = res.at
  /\ prev.faults \ WriterFaults = res.faults \ WriterFaults

\* C11: a failure while writing the snapshot (the availability counts or the
\* insert) never fails the calculation: the call returns what the same call
\* with saveSnapshot = false returns, and it leaves no snapshot row behind.
C11_SnapshotFailureIsAbsorbed ==
  SnapshotWriteFailed =>
    /\ res.wrote = 0
    /\ res.out # Failure("snapshot")
    /\ SameCallWithoutSnapshot => res.out = prev.out

C11_Witness ==
  /\ SnapshotWriteFailed
  /\ SameCallWithoutSnapshot
  /\ ReturnedDynamic
  /\ res.out = prev.out
  /\ res.wrote = 0
  /\ snapshots = <<>>

(***************************************************************************)
(* Demand estimator                                                        *)
(***************************************************************************)
DemandAnswered == res.op = "demand" /\ res.faults = {}

\* C12: the demand multiplier lies in [0.6, 2.5] for every number of eligible
\* vehicles and of overlapping draft or active bookings, more bookings than
\* vehicles included; it is exactly 1.0 when the city has no eligible vehicle
\* and 1.0, not an error, when a store query fails.
C12_DemandWithinRange ==
  res.op = "demand" =>
    /\ res.out # THROWN
    /\ FracLeq(<<3, 5>>, res.out) /\ FracLeq(res.out, <<5, 2>>)
    /\ Eligible(res.cityId) = 0 => res.out = One
    /\ res.faults # {} => res.out = One

\* more overlapping bookings than eligible vehicles: the multiplier is the cap
C12_Witness ==
  /\ DemandAnswered
  /\ Eligible(res.cityId) > 0
  /\ Overlapping(res.cityId) > Eligible(res.cityId)
  /\ res.out = <<5, 2>>

\* available / total of the city, as a fraction
SupplyRatio(cityId) == Frac(Eligible(cityId) - Overlapping(cityId), Eligible(cityId))

RatioInUnitInterval(cityId) ==
  /\ Eligible(cityId) >= 1
  /\ Overlapping(cityId) <= Eligible(cityId)

\* C13: the demand multiplier never increases with the supply ratio: of two
\* cities with ratios in [0, 1], the one with the higher ratio gets a
\* multiplier no higher than the other's.
C13_DemandNonIncreasing ==
  (/\ DemandAnswered /\ res.cityId = 2
   /\ prev.op = "demand" /\ prev.faults = {}
   /\ RatioInUnitInterval(1) /\ RatioInUnitInterval(2)) =>
     /\ FracLeq(SupplyRatio(1), SupplyRatio(2)) => FracLeq(res.out, prev.out)
     /\ FracLeq(SupplyRatio(2), SupplyRatio(1)) => FracLeq(prev.out, res.out)

\* C14 as stated: 10 eligible vehicles and 8 overlapping bookings give
\* approximately 1.2.
C14_TwoTenthsGivesOnePointTwo ==
  (DemandAnswered /\ Eligible(res.cityId) = 10 /\ Overlapping(res.cityId) = 8) =>
    /\ FracLeq(<<115, 100>>, res.out)
    /\ FracLeq(res.out, <<125, 100>>)

\* C14: 10 eligible vehicles and 8 overlapping draft or active bookings give
\* the supply ratio 0.2, which the third segment owns: the multiplier is 1.7.
C14_TwoTenthsGivesOnePointSeven ==
  (DemandAnswered /\ Eligible(res.cityId) = 10 /\ Overlapping(res.cityId) = 8) =>
    /\ SupplyRatio(res.cityId) = <<1, 5>>
    /\ res.out = <<17, 10>>

C14_Witness ==
  /\ DemandAnswered
  /\ Eligible(res.cityId) = 10 /\ Overlapping(res.cityId) = 8
  /\ res.out = <<17, 10>>

(***************************************************************************)
(* Customer estimator                                                      *)
(***************************************************************************)
\* the rentals of the customer that count, their number completed and their
\* total price
Rentals(userId) == { c \in contracts : c.userId = userId /\ c.state \in {"COMPLETED", "ACTIVE"} }

CompletedRentals(userId) == Cardinality({ c \in Rentals(userId) : c.state = "COMPLETED" })

LifetimeValue(userId) == SumTotalPrice(Rentals(userId))

RentedRecently(userId) == \E c \in Rentals(userId) : c.endDate >= now - 60 * DAY

\* C15: the customer multiplier is never below 0.85 nor above 1.0, for every
\* customer id or none, every number of completed and active rentals, every
\* lifetime spend and every recency; it is 1.0 when the history lookup fails.
C15_CustomerWithinRange ==
  res.op = "customer" =>
    /\ res.out # THROWN
    /\ FracLeq(<<85, 100>>, res.out) /\ FracLeq(res.out, One)
    /\ res.faults # {} => res.out = One

\* a customer with more than 10 completed rentals and a recent one is at the cap
C15_Witness ==
  /\ res.op = "customer" /\ res.faults = {}
  /\ res.userId # Null
  /\ CompletedRentals(res.userId) > 10
  /\ RentedRecently(res.userId)
  /\ res.out = Frac(85, 100)

\* the base discount, in percent, as the tiers are stated
StatedDiscount(userId) ==
  IF CompletedRentals(userId) > 10 \/ LifetimeValue(userId) >= 500000 THEN 12
  ELSE IF CompletedRentals(userId) >= 6 THEN 8
  ELSE IF CompletedRentals(userId) >= 2 THEN 5
  ELSE 0

\* the multiplier that follows from a base discount: 3 points more after a
\* recent rental, at most 15 in all
MultiplierOf(base, userId) ==
  LET total == IF RentedRecently(userId) /\ base > 0 THEN base + 3 ELSE base
  IN Frac(100 - (IF total < 15 THEN total ELSE 15), 100)

\* C16: for a customer with a non-empty rental history the base loyalty
\* discount is 12% whenever more than 10 rentals are completed or the lifetime
\* spend is at least 5000, for every completed-rental count, 8% for 6 to 10
\* completed rentals, 5% for 2 to 5, and 0 otherwise.
C16_DiscountFollowsTiers ==
  (/\ res.op = "customer" /\ res.faults = {}
   /\ res.userId # Null /\ res.userId # 0
   /\ Rentals(res.userId) # {}) =>
     res.out = MultiplierOf(StatedDiscount(res.userId), res.userId)

(***************************************************************************)
(* Duration discounter                                                     *)
(***************************************************************************)
\* the documented table of duration discounts
DurationTable(days) ==
  CASE days <= 2 -> One
    [] days >= 3 /\ days <= 6 -> Frac(95, 100)
    [] days >= 7 /\ days <= 13 -> Frac(88, 100)
    [] days >= 14 /\ days <= 20 -> Frac(82, 100)
    [] days >= 21 /\ days <= 29 -> Frac(75, 100)
    [] days >= 30 -> Frac(65, 100)

\* C17: the duration multiplier never increases with the number of days and
\* equals the table <= 2 -> 1.0, 3..6 -> 0.95, 7..13 -> 0.88, 14..20 -> 0.82,
\* 21..29 -> 0.75, >= 30 -> 0.65; it is 1.0 for 1 day and 0.65 for 30 days.
C17_DurationTable ==
  res.op = "duration" =>
    /\ res.out = DurationTable(res.days)
    /\ res.days = 1 => res.out = One
    /\ res.days = 30 => res.out = <<13, 20>>
    /\ (prev.op = "duration" /\ prev.days <= res.days) => FracLeq(res.out, prev.out)
    /\ (prev.op = "duration" /\ res.days <= prev.days) => FracLeq(prev.out, res.out)

\* a request of 29 days followed by one of 30 days
C17_Witness ==
  /\ res.op = "duration" /\ prev.op = "duration"
  /\ prev.days = 29 /\ res.days = 30
  /\ prev.out = <<3, 4>> /\ res.out = <<13, 20>>

(***************************************************************************)
(* Utilization estimator and maintenance multiplier                        *)
(***************************************************************************)
\* the documented table of utilization multipliers
UtilizationTable(rate) ==
  IF FracLess(rate, <<3, 10>>) THEN Frac(75, 100)
  ELSE IF FracLess(rate, <<1, 2>>) THEN Frac(85, 100)
  ELSE IF FracLeq(rate, <<3, 4>>) THEN One
  ELSE IF FracLeq(rate, <<9, 10>>) THEN Frac(110, 100)
  ELSE Frac(125, 100)

\* C18: a vehicle whose utilization rate has never been computed gets a
\* utilization multiplier of exactly 1.0 and no error; for a stored rate the
\* multiplier is 0.75 below 0.3, 0.85 in [0.3, 0.5), 1.0 in [0.5, 0.75],
\* 1.1 in (0.75, 0.9] and 1.25 above 0.9.
C18_NeverComputedIsNeutral ==
  (res.op = "utilization" /\ res.faults = {} /\ res.carId \in DOMAIN cars) =>
    LET car == cars[res.carId]
    IN /\ res.out # THROWN
       /\ car.lastUtilizationUpdate = Null => res.out = One
       /\ (car.lastUtilizationUpdate # Null /\ car.utilizationRate # NullRate) =>
            res.out = UtilizationTable(car.utilizationRate)

\* the documented table of maintenance multipliers
MaintenanceTable(score) ==
  IF score = Null THEN One
  ELSE IF score >= 95 THEN Frac(105, 100)
  ELSE IF score >= 85 THEN One
  ELSE IF score >= 70 THEN Frac(95, 100)
  ELSE Frac(85, 100)

\* C19: the maintenance multiplier is 1.05 for every score >= 95, 1.0 for
\* scores in [85, 95), 0.95 for scores in [70, 85), 0.85 for every score
\* below 70, every value 0..69, and 1.0 only when the score is missing.
C19_MaintenanceTable ==
  res.op = "maintenance" =>
    LET score == cars[res.carId].maintenanceScore
    IN /\ res.out = MaintenanceTable(score)
       /\ res.out = One => (score = Null \/ (score >= 85 /\ score < 95))

(***************************************************************************)
(* Worked example of the product                                           *)
(***************************************************************************)
\* base price 40, demand 1.6, seasonal 1.3, utilization 1.1, 7 days (0.88),
\* loyalty 0.95, maintenance neutral
WorkedExample ==
  /\ res.op = "product"
  /\ res.basePrice = 4000
  /\ res.mult = [demand |-> <<8, 5>>, seasonal |-> <<13, 10>>, utilization |-> <<11, 10>>,
                 maintenance |-> One, customer |-> <<19, 20>>]
  /\ res.days = 7

ResolvedOverMatching ==
  /\ ReturnedDynamic
  /\ Len(res.out.fetched) > 0
  /\ \A i \in DOMAIN res.out.fetched : RuleScope(res.out.fetched[i], res.out.car)

WithinClamp(price, rule) ==
  /\ rule.minPrice # Null => price >= rule.minPrice
  /\ rule.maxPrice # Null => price <= rule.maxPrice

\* C21 as stated: after rule resolution the final per-day price lies within
\* the clamp of every matching rule that defines one, not only of the rule
\* applied last.
C21_WithinEveryRuleClamp ==
  (ResolvedOverMatching /\ res.out.resolved # 0) =>
    \A i \in DOMAIN res.out.fetched :
      /\ WithinClamp(res.out.resolved, res.out.fetched[i])
      /\ WithinClamp(res.out.pricePerDay, res.out.fetched[i])

\* C21: the price the resolver ends with lies within the clamp of the rule
\* processed last, the row of lowest priority the query returned; the clamps
\* of the rules before it bind the running price only until the next rule
\* changes it.
C21_WithinLastRuleClamp ==
  (ReturnedDynamic /\ Len(res.out.fetched) > 0) =>
    LET last == res.out.fetched[Len(res.out.fetched)]
    IN (last.minPrice = Null \/ last.maxPrice = Null \/ last.minPrice <= last.maxPrice) =>
         WithinClamp(res.out.resolved, last)

\* the rule processed last has a minimum, it changed the price and the
\* resolver ended on that minimum
C21_Witness ==
  /\ ReturnedDynamic
  /\ Len(res.out.fetched) > 0
  /\ res.out.fetched[Len(res.out.fetched)].minPrice # Null
  /\ \E i \in DOMAIN res.out.rules :
       res.out.rules[i] = res.out.fetched[Len(res.out.fetched)].id
  /\ res.out.resolved = res.out.fetched[Len(res.out.fetched)].minPrice
  /\ res.out.dynamicPrice < res.out.resolved

\* C22: pricePerDay equals the price the rule resolver ended with and
\* totalPrice equals pricePerDay x duration rounded to cents; when the rule
\* applied last is a fixed-price rule without clamp, pricePerDay equals its
\* fixedPrice, for every fixedPrice >= 0; breakdown.rules is non-empty only
\* if pricePerDay reflects those rules.
C22_ReturnedPriceIsResolved ==
  ReturnedDynamic =>
    /\ res.out.pricePerDay = res.out.resolved
    /\ res.out.totalPrice = res.out.pricePerDay * res.out.duration
    /\ Len(res.out.fetched) > 0 =>
         LET last == res.out.fetched[Len(res.out.fetched)]
         IN (last.fixedPrice # Null /\ last.minPrice = Null /\ last.maxPrice = Null) =>
              res.out.pricePerDay = last.fixedPrice
    /\ res.out.rules # <<>> => res.out.pricePerDay = res.out.resolved

(***************************************************************************)
(* Cached metrics accessor                                                 *)
(***************************************************************************)
\* the call of p is at the store call `pc' and this step performs it
Performs(p, pc) ==
  /\ p \in DOMAIN calls /\ calls[p].pc = pc
  /\ p \in DOMAIN calls' /\ calls'[p].pc # pc

\* the call of p ends in this step with the neutral metrics and no write
EndsNeutral(p) ==
  /\ calls'[p].pc = "done"
  /\ calls'[p].out = NeutralMetrics
  /\ calls'[p].out.demandScore = One
  /\ metrics' = metrics

\* the counts the row of the city is to be computed from
LeaseCarsNow(cityId) ==
  Cardinality({ id \in DOMAIN cars : cars[id].cityId = cityId /\ cars[id].availableForLease })

ActiveBookingsNow(cityId) ==
  Cardinality({ c \in contracts : cars[c.carId].cityId = cityId /\ c.state = "ACTIVE"
                  /\ c.startDate * HALFDAY <= Clock /\ Clock <= c.endDate * HALFDAY })

\* C23: the accessor returns the stored row unchanged and writes nothing
\* whenever a row of the city is less than 15 minutes old; with no row or a
\* row 15 minutes old or older it recomputes from the current vehicle and
\* active-booking counts and upserts the row with lastCalculated = now; when
\* a store operation fails it returns the neutral metrics (demandScore 1.0)
\* and writes nothing.
C23_CacheWithinFreshness ==
  [][\A p \in {1, 2} :
       /\ (Performs(p, "find") /\ "metricsFind" \notin calls[p].faults) =>
            IF \E row \in metrics : row.cityId = calls[p].cityId
                                      /\ Clock - row.lastCalculated < FRESH
            THEN /\ calls'[p].pc = "done"
                 /\ calls'[p].out \in metrics /\ calls'[p].out.cityId = calls[p].cityId
                 /\ metrics' = metrics
            ELSE calls'[p].pc = "cars"
       /\ (Performs(p, "cars") /\ "metricsCars" \notin calls[p].faults) =>
            calls'[p].totalCars = LeaseCarsNow(calls[p].cityId) /\ metrics' = metrics
       /\ (Performs(p, "contracts") /\ "metricsContracts" \notin calls[p].faults) =>
            calls'[p].activeContracts = ActiveBookingsNow(calls[p].cityId) /\ metrics' = metrics
       /\ (Performs(p, "write") /\ calls'[p].wrote) =>
            /\ calls'[p].out \in metrics'
            /\ calls'[p].out.lastCalculated = Clock
            /\ calls'[p].out.totalCars = calls[p].totalCars
            /\ calls'[p].out.activeContracts = calls[p].activeContracts
       /\ (Performs(p, "find") /\ "metricsFind" \in calls[p].faults) => EndsNeutral(p)
       /\ (Performs(p, "cars") /\ "metricsCars" \in calls[p].faults) => EndsNeutral(p)
       /\ (Performs(p, "contracts") /\ "metricsContracts" \in calls[p].faults) => EndsNeutral(p)
       /\ (Performs(p, "upsert") /\ "metricsUpsert" \in calls[p].faults) => EndsNeutral(p)
    ]_vars

\* a call was answered from a row 10 minutes old
C23_Witness ==
  /\ 1 \in DOMAIN calls
  /\ calls[1].pc = "done" /\ calls[1].hit
  /\ calls[1].out \in metrics
  /\ Clock - calls[1].out.lastCalculated = 10

\* C24: under every interleaving of concurrent calls for the same city the
\* store holds at most one row for the city, the row is the complete value
\* computed by one writer, and every caller receives a metrics object rather
\* than an error.
C24_OneRowPerCity ==
  /\ \A r1, r2 \in metrics : r1.cityId = r2.cityId => r1 = r2
  /\ \A row \in metrics :
       row = [MetricsRow(row.id, row.cityId, row.totalCars, row.activeContracts)
                EXCEPT !.lastCalculated = row.lastCalculated]
  /\ \A p \in DOMAIN calls :
       calls[p].pc = "done" =>
         /\ {"totalCars", "availableCars", "activeContracts", "utilizationRate",
             "demandScore"} \subseteq DOMAIN calls[p].out
         /\ calls[p].out = NeutralMetrics \/ calls[p].out.cityId = calls[p].cityId

\* two calls that both found no row: one inserted it, the other met the
\* unique index and got the neutral metrics
C24_Witness ==
  /\ DOMAIN calls = {1, 2}
  /\ calls[1].pc = "done" /\ calls[2].pc = "done"
  /\ calls[1].faults = {} /\ calls[2].faults = {}
  /\ calls[1].wrote /\ ~calls[2].wrote /\ ~calls[2].hit
  /\ Cardinality(metrics) = 1

\* C29: every row written by the accessor satisfies availableCars +
\* activeContracts = totalCars, 0 <= availableCars <= totalCars,
\* 0 <= utilizationRate <= 1 and 0.6 <= demandScore <= 2.5, after any
\* sequence of contract creations, contract state changes and vehicle
\* availability changes.
C29_MetricsRowInvariants ==
  \A row \in metrics :
    /\ row.availableCars + row.activeContracts = row.totalCars
    /\ 0 <= row.availableCars /\ row.availableCars <= row.totalCars
    /\ FracLeq(<<0, 1>>, row.utilizationRate) /\ FracLeq(row.utilizationRate, One)
    /\ FracLeq(<<3, 5>>, row.demandScore) /\ FracLeq(row.demandScore, <<5, 2>>)

(***************************************************************************)
(* Scheduled jobs                                                          *)
(***************************************************************************)
\* C25: every run of updateAllCityDemandMetrics that meets no store error
\* leaves every city with a metrics row computed during that run, so that
\* no city's row is older than the start of the run.
C25_RunRefreshesEveryCity ==
  (run.pc = "vehicles" /\ run.log = 0) =>
    \A i \in DOMAIN Cities :
      \E row \in metrics : row.cityId = Cities[i] /\ row.lastCalculated >= run.started

JobOrder == <<"demand", "utilization", "cleanup">>

\* C26: no job throws past its boundary: a store failure on one city or
\* vehicle is logged and the sweep goes on to the next one, and
\* runAllPricingJobs runs the three jobs in the order demand metrics,
\* utilization rates, snapshot cleanup and completes.
C26_JobsRunInOrderAndComplete ==
  /\ [](run.pc # "idle" =>
          /\ run.order = SubSeq(JobOrder, 1, Len(run.order))
          /\ run.pc \in {"cities", "city"} <=> Len(run.order) = 1
          /\ run.pc \in {"vehicles", "vehicle"} <=> Len(run.order) = 2
          /\ run.pc \in {"cleanup", "delete", "complete"} <=> Len(run.order) = 3
          /\ (Len(run.order) > 1 /\ "cities" \notin run.faults) =>
               run.cities = { Cities[i] : i \in DOMAIN Cities }
          /\ (Len(run.order) > 2 /\ "jobCars" \notin run.faults) =>
               run.vehicles = run.listed
          /\ (run.pc = "complete" /\ run.faults # {}) => run.log >= 1)
  /\ (run.pc # "idle") ~> (run.pc = "complete")

\* a run in which the update of one vehicle failed went on to the next
\* vehicle and to the cleanup
C26_Witness ==
  /\ run.pc = "complete"
  /\ run.faults = {"utilUpdate"}
  /\ run.log = 1
  /\ FaultyCar \in run.vehicles
  /\ \E id \in run.vehicles : id > FaultyCar
  /\ run.deleted # Null

\* the bookings of the vehicle that overlap the 90 days before now
OverlappingWindow(carId) ==
  { c \in contracts : /\ c.carId = carId
                      /\ c.state \in {"ACTIVE", "COMPLETED"}
                      /\ c.startDate * HALFDAY <= Clock
                      /\ c.endDate * HALFDAY >= Clock - LookbackDays * DAY * HALFDAY }

\* min(1, totalOverlapDays / lookbackDays)
OverlapRate(carId) ==
  LET rate == Frac(TotalRentedDays(OverlappingWindow(carId),
                                   Clock - LookbackDays * DAY * HALFDAY), LookbackDays)
  IN IF FracLeq(One, rate) THEN One ELSE rate

\* C27: updateCarUtilizationRate persists min(1, totalOverlapDays /
\* lookbackDays), summed over every ACTIVE or COMPLETED booking that overlaps
\* [now - lookback, now], bookings that started before the window included;
\* the stored rate is within [0, 1] and the value returned is the value
\* persisted.
C27_RateIsOverlapShare ==
  [][(run.pc = "vehicle" /\ run'.vehicles # run.vehicles /\ run'.last.wrote) =>
       LET carId == run'.last.carId
       IN /\ cars'[carId].utilizationRate = OverlapRate(carId)
          /\ FracLeq(<<0, 1>>, cars'[carId].utilizationRate)
          /\ FracLeq(cars'[carId].utilizationRate, One)
          /\ run'.last.returned = cars'[carId].utilizationRate
    ]_vars

Rows(seq) == { seq[i] : i \in DOMAIN seq }

\* the step is the deleteMany of cleanupOldSnapshots
IsSweep == run.pc = "delete" /\ run'.pc = "complete"

\* the rows the step adds were created now, and when the step is the sweep the
\* rows older than its ninetyDaysAgo are gone
InsertsAndSweeps ==
  /\ \A row \in Rows(snapshots') \ Rows(snapshots) : row.createdAt = now
  /\ (IsSweep /\ "deleteMany" \notin run.faults) =>
       \A row \in Rows(snapshots') : row.createdAt * HALFDAY >= run.ninetyDaysAgo

\* C28: a stored snapshot is never modified and is removed only by
\* cleanupOldSnapshots, which deletes exactly the snapshots created more than
\* 90 days before the sweep.
C28_RemovedOnlyBySweep ==
  [][/\ InsertsAndSweeps
     /\ \A row \in Rows(snapshots) \ Rows(snapshots') :
          IsSweep /\ row.createdAt * HALFDAY < run.ninetyDaysAgo
    ]_vars

\* C28 as the code has it: a stored snapshot is never modified and is removed
\* only by cleanupOldSnapshots, which deletes exactly the snapshots created
\* more than 90 days before the sweep, or together with its vehicle.
C28_RemovedBySweepOrWithVehicle ==
  [][/\ InsertsAndSweeps
     /\ \A row \in Rows(snapshots) \ Rows(snapshots') :
          \/ IsSweep /\ row.createdAt * HALFDAY < run.ninetyDaysAgo
          \/ row.carId \in DOMAIN cars /\ row.carId \notin DOMAIN cars'
    ]_vars

\* a sweep removed the snapshot of 100 days ago and kept that of exactly 90
\* days ago and one that a price request stored today
C28_Witness ==
  /\ run.pc = "complete" /\ run.deleted = 1
  /\ Len(snapshots) = 3
  /\ \E i \in DOMAIN snapshots : snapshots[i].createdAt = StartOfTime - KeepDays * DAY
  /\ \E i \in DOMAIN snapshots : snapshots[i].createdAt = now

(***************************************************************************)
(* Seasonality estimator                                                   *)
(***************************************************************************)
\* the factors that count for a start date and a city
MatchingFactors(startDate, cityId) ==
  { f \in factors : /\ f.isActive
                    /\ f.startDate <= startDate /\ startDate <= f.endDate
                    /\ f.cityId \in {Null, cityId} }

\* layer 1: the highest matching factor, or the month curve when there is
\* none or the lookup failed
FactorLayer(q) ==
  LET fs == MatchingFactors(q.startDate, q.cityId)
      month == getMonth(q.startDate)
  IN IF fs # {} /\ "seasonal" \notin q.faults
     THEN CHOOSE m \in { f.multiplier : f \in fs } :
            \A f \in fs : FracLeq(f.multiplier, m)
     ELSE IF month \in {5, 6, 7} THEN Frac(130, 100)
     ELSE IF month \in {0, 1, 2} THEN Frac(85, 100)
     ELSE One

\* layer 2: the day of the week, for durations of at most 3 days
WeekdayLayer(q) ==
  IF q.duration <= 3 /\ getDay(q.startDate) \in {5, 6} THEN Frac(115, 100)
  ELSE IF q.duration <= 3 /\ getDay(q.startDate) = 1 THEN Frac(95, 100)
  ELSE One

\* layer 3: within 2 days of a holiday of the year of the start date
HolidayLayer(q) ==
  IF \E holiday \in getHolidays(q.startDate) :
       q.startDate - holiday \in (-2 * DAY) .. (2 * DAY)
  THEN Frac(125, 100) ELSE One

\* layer 4 as stated: under 3 days away, over 30 days away
LeadLayer(q) ==
  IF q.startDate - now < 3 * DAY THEN Frac(115, 100)
  ELSE IF q.startDate - now > 30 * DAY THEN Frac(95, 100)
  ELSE One

\* layer 4 in whole days: under 3 days away, 31 days or more away
LeadLayerWholeDays(q) ==
  IF q.startDate - now < 3 * DAY THEN Frac(115, 100)
  ELSE IF q.startDate - now >= 31 * DAY THEN Frac(95, 100)
  ELSE One

\* C30: calculateSeasonalMultiplier returns the product of four layers: the
\* highest matching active factor or else the month curve, the weekday
\* adjustment for durations of at most 3 days, 1.25 within 2 days of a
\* holiday, and 1.15 when the start is under 3 days away or 0.95 when it is
\* over 30 days away; no layer is skipped because another fired.
C30_ProductOfFourLayers ==
  res.op = "seasonal" =>
    res.out = FracMul(FracMul(FracMul(FactorLayer(res), WeekdayLayer(res)),
                              HolidayLayer(res)), LeadLayer(res))

\* C30 as the code has it: the same product, with the 0.95 of the fourth
\* layer when the start is 31 days or more away.
C30_ProductWithWholeDayLead ==
  res.op = "seasonal" =>
    res.out = FracMul(FracMul(FracMul(FactorLayer(res), WeekdayLayer(res)),
                              HolidayLayer(res)), LeadLayerWholeDays(res))

\* Friday 26 June in city 2, 3 days: the higher of two campaigns, the weekend,
\* St. John's Day and the early booking all count
C30_Witness ==
  /\ res.op = "seasonal"
  /\ res.startDate = 352 /\ res.duration = 3 /\ res.cityId = 2 /\ res.faults = {}
  /\ PeakFactor \in factors
  /\ res.out = FracMul(FracMul(FracMul(<<8, 5>>, Frac(115, 100)), Frac(125, 100)),
                       Frac(95, 100))

====
